---- MODULE Spec2Model ----
(***************************************************************************)
(* Knowledge graph store of the quantitative-research context manager.     *)
(* The persisted graph file is the state; every manager operation is a     *)
(* read-modify-write of that file (loadGraph ... saveGraph).               *)
(***************************************************************************)
EXTENDS Integers, Sequences, FiniteSets, TLC

\* graph: the content of the memory file, [entities, relations], each a list
\*        in stored order
\* last:  the last call made: operation, arguments, whether it returned (ok)
\*        or threw (err), the value returned, and the sizes of the graph it
\*        started from
\* sessions: the content of the session file: session id -> the list of the
\*        stage records stored for it, in stored order
VARIABLES graph, last, sessions, calls

vars == <<graph, last, sessions, calls>>

(* ---------------- bounds of the model ---------------- *)

\* entities + relations + observations the stored graph may hold
MaxSize == 3
\* longest batch handed to one call
MaxBatch == 2
\* stage records the session file may hold before the terminal call, which
\* may add its own
MaxStages == 3

(* ---------------- closed sets of the program ---------------- *)

\* The sets of the build that has the status and priority helpers; the manager
\* methods below read the same in both builds of the server.

VALID_ENTITY_TYPES ==
  { "project", "dataset", "variable", "hypothesis", "statisticalTest",
    "result", "analysisScript", "visualization", "model", "literature",
    "researchQuestion", "finding", "participant", "status", "priority" }

VALID_RELATION_TYPES ==
  { "contains", "derived_from", "analyzes", "produced_by", "supports",
    "contradicts", "based_on", "cites", "addresses", "precedes",
    "has_status", "has_priority" }

VALID_STATUS_VALUES == <<"active", "completed", "pending", "abandoned">>

VALID_PRIORITY_VALUES == <<"high", "low">>

validateEntityType(entityType) == entityType \in VALID_ENTITY_TYPES

\* every relation type passes
validateRelationTypeAny(relationType) == relationType = relationType

validateRelationType(relationType) == relationType \in VALID_RELATION_TYPES

\* The sets of the TypeScript source build (src/index.ts): no status and
\* priority types, and the relation types that the views read.

VALID_ENTITY_TYPES_TS ==
  { "project", "dataset", "variable", "hypothesis", "statisticalTest",
    "result", "analysisScript", "visualization", "model", "literature",
    "researchQuestion", "finding", "participant" }

VALID_RELATION_TYPES_TS ==
  { "correlates_with", "predicts", "tests", "analyzes", "produces",
    "visualizes", "contains", "part_of", "depends_on", "supports",
    "contradicts", "derived_from", "controls_for", "moderates", "mediates",
    "implements", "compares", "includes", "validates", "cites" }

validateEntityTypeTS(entityType) == entityType \in VALID_ENTITY_TYPES_TS

validateRelationTypeTS(relationType) == relationType \in VALID_RELATION_TYPES_TS

(* ---------------- data model ---------------- *)

Entity(n, t, o) == [name |-> n, entityType |-> t, observations |-> o]

Relation(f, t, r) == [from |-> f, to |-> t, relationType |-> r]

EmptyGraph == [entities |-> <<>>, relations |-> <<>>]

(* ---------------- helpers ---------------- *)

Range(s) == {s[i] : i \in DOMAIN s}

MinOf(S) == CHOOSE m \in S : \A k \in S : m <= k

SeqsUpTo(S, n) == UNION {[1..k -> S] : k \in 0..n}

\* number of positions of s holding x
Count(s, x) == Cardinality({i \in DOMAIN s : s[i] = x})

RECURSIVE ObsTotal(_)
ObsTotal(es) ==
  IF es = <<>> THEN 0 ELSE Len(Head(es).observations) + ObsTotal(Tail(es))

GraphSize(g) == Len(g.entities) + Len(g.relations) + ObsTotal(g.entities)

\* a call may grow the stored graph only up to MaxSize
Fits(g, h) == IF GraphSize(h) <= MaxSize THEN TRUE ELSE GraphSize(h) <= GraphSize(g)

Sizes(g) == <<Len(g.entities), Len(g.relations), ObsTotal(g.entities)>>

EntityNames(g) == {e.name : e \in Range(g.entities)}

\* String.prototype.toLowerCase, letter by letter
LowerChar(c) ==
  CASE c = "A" -> "a" [] c = "B" -> "b" [] c = "C" -> "c" [] c = "D" -> "d"
    [] c = "E" -> "e" [] c = "F" -> "f" [] c = "G" -> "g" [] c = "H" -> "h"
    [] c = "I" -> "i" [] c = "J" -> "j" [] c = "K" -> "k" [] c = "L" -> "l"
    [] c = "M" -> "m" [] c = "N" -> "n" [] c = "O" -> "o" [] c = "P" -> "p"
    [] c = "Q" -> "q" [] c = "R" -> "r" [] c = "S" -> "s" [] c = "T" -> "t"
    [] c = "U" -> "u" [] c = "V" -> "v" [] c = "W" -> "w" [] c = "X" -> "x"
    [] c = "Y" -> "y" [] c = "Z" -> "z" [] OTHER -> c

RECURSIVE toLowerCase(_)
toLowerCase(s) ==
  IF Len(s) = 0 THEN ""
  ELSE LowerChar(SubSeq(s, 1, 1)) \o toLowerCase(SubSeq(s, 2, Len(s)))

\* String.prototype.includes
includes(s, t) ==
  IF Len(t) = 0 THEN TRUE
  ELSE \E i \in 1..(Len(s) - Len(t) + 1) : SubSeq(s, i, i + Len(t) - 1) = t

\* String.prototype.startsWith
startsWith(s, t) ==
  IF Len(t) > Len(s) THEN FALSE ELSE SubSeq(s, 1, Len(t)) = t

\* s without its leading blanks
RECURSIVE SkipBlanks(_)
SkipBlanks(s) ==
  IF Len(s) = 0 THEN ""
  ELSE IF SubSeq(s, 1, 1) = " " THEN SkipBlanks(SubSeq(s, 2, Len(s))) ELSE s

\* s.split(/\s+/), the blank being the white space of the model
RECURSIVE splitWhitespace(_)
splitWhitespace(s) ==
  LET blanks == {i \in 1..Len(s) : SubSeq(s, i, i) = " "}
  IN  IF blanks = {} THEN <<s>>
      ELSE <<SubSeq(s, 1, MinOf(blanks) - 1)>>
             \o splitWhitespace(SkipBlanks(SubSeq(s, MinOf(blanks), Len(s))))

\* a || b on strings: the empty (or absent) string gives way to the default
OrElse(a, b) == IF a = "" THEN b ELSE a

\* outcome of one manager call: the graph file afterwards, and what the
\* caller observes (a returned value, or the error that was thrown)
Returned(g, v) == [graph |-> g, ok |-> TRUE, err |-> <<>>, ret |-> v]

Thrown(g, e) == [graph |-> g, ok |-> FALSE, err |-> e, ret |-> <<>>]

\* Array.prototype.find on the entity list: index of the first match, 0 if none
FindEntity(es, n) ==
  LET hits == {i \in DOMAIN es : es[i].name = n}
  IN  IF hits = {} THEN 0 ELSE MinOf(hits)

(* ---------------- KnowledgeGraphManager ---------------- *)

\* entities of an invalid type are dropped instead of failing the batch
createEntitiesSkipInvalid(g, entities) ==
  LET existingEntityNames == {e.name : e \in Range(g.entities)}
      newEntities ==
        SelectSeq(entities, LAMBDA e : /\ validateEntityType(e.entityType)
                                       /\ e.name \notin existingEntityNames)
  IN  Returned([g EXCEPT !.entities = @ \o newEntities], newEntities)

\* a stored name is overwritten by the supplied entity
createEntitiesOverwrite(g, entities) ==
  LET bad == {i \in DOMAIN entities : ~validateEntityType(entities[i].entityType)}
      kept == SelectSeq(g.entities,
                        LAMBDA e : e.name \notin {x.name : x \in Range(entities)})
  IN  IF bad # {}
      THEN Thrown(g, <<"InvalidType", entities[MinOf(bad)].entityType>>)
      ELSE Returned([g EXCEPT !.entities = kept \o entities],
                    SelectSeq(entities, LAMBDA e : e.name \notin EntityNames(g)))

createEntities(g, entities) ==
  LET existingEntityNames == {e.name : e \in Range(g.entities)}
      bad == {i \in DOMAIN entities : ~validateEntityType(entities[i].entityType)}
  IN  IF bad # {}
      THEN Thrown(g, <<"InvalidType", entities[MinOf(bad)].entityType>>)
      ELSE LET newEntities ==
                 SelectSeq(entities, LAMBDA e : e.name \notin existingEntityNames)
           IN  Returned([g EXCEPT !.entities = @ \o newEntities], newEntities)

\* the string key under which createRelations remembers a stored triple
relationKey(r) == r.from \o ":" \o r.to \o ":" \o r.relationType

\* a relation type check placed before the endpoint checks
relationErrorTypeFirst(existingEntityNames, relation) ==
  IF ~validateRelationType(relation.relationType)
  THEN <<"InvalidType", relation.relationType>>
  ELSE IF relation.from \notin existingEntityNames
  THEN <<"EntityNotFound", relation.from>>
  ELSE IF relation.to \notin existingEntityNames
  THEN <<"EntityNotFound", relation.to>>
  ELSE <<>>

\* the `to` endpoint is not checked
relationErrorNoToCheck(existingEntityNames, relation) ==
  IF relation.from \notin existingEntityNames
  THEN <<"EntityNotFound", relation.from>>
  ELSE IF ~validateRelationType(relation.relationType)
  THEN <<"InvalidType", relation.relationType>>
  ELSE <<>>

\* the checks createRelations makes on one relation of the batch: the error
\* it throws, <<>> when the relation passes
relationError(existingEntityNames, relation) ==
  IF relation.from \notin existingEntityNames
  THEN <<"EntityNotFound", relation.from>>
  ELSE IF relation.to \notin existingEntityNames
  THEN <<"EntityNotFound", relation.to>>
  ELSE IF ~validateRelationType(relation.relationType)
  THEN <<"InvalidType", relation.relationType>>
  ELSE <<>>

\* stored triples are not filtered out of the batch
createRelationsNoDedup(g, relations) ==
  LET existingEntityNames == {e.name : e \in Range(g.entities)}
      failing == {i \in DOMAIN relations :
                    relationError(existingEntityNames, relations[i]) # <<>>}
  IN  IF failing # {}
      THEN Thrown(g, relationError(existingEntityNames, relations[MinOf(failing)]))
      ELSE Returned([g EXCEPT !.relations = @ \o relations], relations)

createRelations(g, relations) ==
  LET existingEntityNames == {e.name : e \in Range(g.entities)}
      failing == {i \in DOMAIN relations :
                    relationError(existingEntityNames, relations[i]) # <<>>}
  IN  IF failing # {}
      THEN Thrown(g, relationError(existingEntityNames, relations[MinOf(failing)]))
      ELSE LET existingRelations == {relationKey(r) : r \in Range(g.relations)}
               newRelations ==
                 SelectSeq(relations, LAMBDA r : relationKey(r) \notin existingRelations)
           IN  Returned([g EXCEPT !.relations = @ \o newRelations], newRelations)

\* the for-loop of addObservations over the in-memory entity list
RECURSIVE addObservationsLoop(_, _, _)
addObservationsLoop(es, observations, results) ==
  IF observations = <<>>
  THEN [found |-> TRUE, missing |-> "", entities |-> es, results |-> results]
  ELSE LET observation == Head(observations)
           i == FindEntity(es, observation.entityName)
       IN  IF i = 0
           THEN [found |-> FALSE, missing |-> observation.entityName,
                 entities |-> es, results |-> results]
           ELSE LET existingObservations == Range(es[i].observations)
                    newObservations ==
                      SelectSeq(observation.contents,
                                LAMBDA o : o \notin existingObservations)
                IN  addObservationsLoop(
                      [es EXCEPT ![i].observations = @ \o newObservations],
                      Tail(observations),
                      Append(results, [entityName |-> observation.entityName,
                                       addedObservations |-> newObservations]))

\* the graph is saved before the error is raised
addObservationsPartial(g, observations) ==
  LET r == addObservationsLoop(g.entities, observations, <<>>)
  IN  IF r.found
      THEN Returned([g EXCEPT !.entities = r.entities], r.results)
      ELSE Thrown([g EXCEPT !.entities = r.entities], <<"EntityNotFound", r.missing>>)

addObservations(g, observations) ==
  LET r == addObservationsLoop(g.entities, observations, <<>>)
  IN  IF r.found
      THEN Returned([g EXCEPT !.entities = r.entities], r.results)
      ELSE Thrown(g, <<"EntityNotFound", r.missing>>)

\* relations of the deleted entities are kept
deleteEntitiesNoCascade(g, entityNames) ==
  Returned(
    [g EXCEPT !.entities = SelectSeq(@, LAMBDA e : e.name \notin Range(entityNames))],
    <<>>)

deleteEntities(g, entityNames) ==
  Returned(
    [entities |-> SelectSeq(g.entities, LAMBDA e : e.name \notin Range(entityNames)),
     relations |-> SelectSeq(g.relations,
                             LAMBDA r : /\ r.from \notin Range(entityNames)
                                        /\ r.to \notin Range(entityNames))],
    <<>>)

RECURSIVE deleteObservationsLoop(_, _)
deleteObservationsLoop(es, deletions) ==
  IF deletions = <<>> THEN es
  ELSE LET deletion == Head(deletions)
           i == FindEntity(es, deletion.entityName)
       IN  IF i = 0
           THEN deleteObservationsLoop(es, Tail(deletions))
           ELSE deleteObservationsLoop(
                  [es EXCEPT ![i].observations =
                     SelectSeq(@, LAMBDA o : o \notin Range(deletion.observations))],
                  Tail(deletions))

deleteObservations(g, deletions) ==
  Returned([g EXCEPT !.entities = deleteObservationsLoop(@, deletions)], <<>>)

deleteRelations(g, relations) ==
  Returned(
    [g EXCEPT !.relations =
       SelectSeq(@, LAMBDA r :
                      ~\E toDelete \in Range(relations) :
                         /\ r.from = toDelete.from
                         /\ r.to = toDelete.to
                         /\ r.relationType = toDelete.relationType)],
    <<>>)

\* does the entity match every term: a term matches when the lower-cased
\* name, entity type or some observation contains it
matchesAllTerms(entity, terms) ==
  \A k \in DOMAIN terms :
     \/ includes(toLowerCase(entity.name), terms[k])
     \/ includes(toLowerCase(entity.entityType), terms[k])
     \/ \E o \in Range(entity.observations) : includes(toLowerCase(o), terms[k])

\* searchNodes only reads: the sub-graph of the matching entities
searchNodes(g, query) ==
  LET terms == splitWhitespace(toLowerCase(query))
      matchingEntityNames ==
        {e.name : e \in {x \in Range(g.entities) : matchesAllTerms(x, terms)}}
  IN  [entities |-> SelectSeq(g.entities, LAMBDA e : e.name \in matchingEntityNames),
       relations |-> SelectSeq(g.relations,
                               LAMBDA r : /\ r.from \in matchingEntityNames
                                          /\ r.to \in matchingEntityNames)]

\* one of the two loops of initializeStatusAndPriority: for each value in
\* order, push the value entity unless one of that name and type is there
RECURSIVE ensureValueEntities(_, _, _)
ensureValueEntities(es, values, type) ==
  IF values = <<>> THEN es
  ELSE LET valueName == type \o ":" \o Head(values)
           present == \E e \in Range(es) : e.name = valueName /\ e.entityType = type
           pushed ==
             IF present THEN es
             ELSE Append(es, Entity(valueName, type,
                                    <<"A " \o Head(values) \o " " \o type \o " value">>))
       IN  ensureValueEntities(pushed, Tail(values), type)

initializeStatusAndPriority(g) ==
  Returned(
    [g EXCEPT !.entities =
       ensureValueEntities(ensureValueEntities(@, VALID_STATUS_VALUES, "status"),
                           VALID_PRIORITY_VALUES, "priority")],
    <<>>)

\* the edges of one relation type that leave the entity named n
EdgesFrom(g, n, relationType) ==
  SelectSeq(g.relations, LAMBDA r : r.from = n /\ r.relationType = relationType)

\* the earlier has_status edges are kept next to the new one
setEntityStatusKeepOld(g, entityName, statusValue) ==
  IF statusValue \notin Range(VALID_STATUS_VALUES)
  THEN Thrown(g, <<"InvalidValue", statusValue>>)
  ELSE Returned(
         [g EXCEPT !.relations =
            Append(@, Relation(entityName, "status:" \o statusValue, "has_status"))],
         <<>>)

\* the earlier has_status edges are dropped and saved before the value check
setEntityStatusCheckLate(g, entityName, statusValue) ==
  LET kept == SelectSeq(g.relations,
                        LAMBDA r : ~(r.from = entityName /\ r.relationType = "has_status"))
  IN  IF statusValue \notin Range(VALID_STATUS_VALUES)
      THEN Thrown([g EXCEPT !.relations = kept], <<"InvalidValue", statusValue>>)
      ELSE Returned(
             [g EXCEPT !.relations =
                Append(kept, Relation(entityName, "status:" \o statusValue, "has_status"))],
             <<>>)

setEntityStatus(g, entityName, statusValue) ==
  IF statusValue \notin Range(VALID_STATUS_VALUES)
  THEN Thrown(g, <<"InvalidValue", statusValue>>)
  ELSE LET kept == SelectSeq(g.relations,
                             LAMBDA r : ~(r.from = entityName /\ r.relationType = "has_status"))
       IN  Returned(
             [g EXCEPT !.relations =
                Append(kept, Relation(entityName, "status:" \o statusValue, "has_status"))],
             <<>>)

setEntityPriority(g, entityName, priorityValue) ==
  IF priorityValue \notin Range(VALID_PRIORITY_VALUES)
  THEN Thrown(g, <<"InvalidValue", priorityValue>>)
  ELSE LET kept == SelectSeq(g.relations,
                             LAMBDA r : ~(r.from = entityName /\ r.relationType = "has_priority"))
       IN  Returned(
             [g EXCEPT !.relations =
                Append(kept, Relation(entityName, "priority:" \o priorityValue, "has_priority"))],
             <<>>)

\* createEntities and createRelations of the TypeScript source build: the
\* same code over that build's type sets
createEntitiesTS(g, entities) ==
  LET existingEntityNames == {e.name : e \in Range(g.entities)}
      bad == {i \in DOMAIN entities : ~validateEntityTypeTS(entities[i].entityType)}
  IN  IF bad # {}
      THEN Thrown(g, <<"InvalidType", entities[MinOf(bad)].entityType>>)
      ELSE LET newEntities ==
                 SelectSeq(entities, LAMBDA e : e.name \notin existingEntityNames)
           IN  Returned([g EXCEPT !.entities = @ \o newEntities], newEntities)

relationErrorTS(existingEntityNames, relation) ==
  IF relation.from \notin existingEntityNames
  THEN <<"EntityNotFound", relation.from>>
  ELSE IF relation.to \notin existingEntityNames
  THEN <<"EntityNotFound", relation.to>>
  ELSE IF ~validateRelationTypeTS(relation.relationType)
  THEN <<"InvalidType", relation.relationType>>
  ELSE <<>>

createRelationsTS(g, relations) ==
  LET existingEntityNames == {e.name : e \in Range(g.entities)}
      failing == {i \in DOMAIN relations :
                    relationErrorTS(existingEntityNames, relations[i]) # <<>>}
  IN  IF failing # {}
      THEN Thrown(g, relationErrorTS(existingEntityNames, relations[MinOf(failing)]))
      ELSE LET existingRelations == {relationKey(r) : r \in Range(g.relations)}
               newRelations ==
                 SelectSeq(relations, LAMBDA r : relationKey(r) \notin existingRelations)
           IN  Returned([g EXCEPT !.relations = @ \o newRelations], newRelations)

(* ---------------- read methods of the KnowledgeGraphManager ---------------- *)

\* index of the first entity of that name and type, 0 if none:
\* graph.entities.find(e => e.name === n && e.entityType === t)
FindTyped(es, n, t) ==
  LET hits == {i \in DOMAIN es : es[i].name = n /\ es[i].entityType = t}
  IN  IF hits = {} THEN 0 ELSE MinOf(hits)

\* for (const relation of graph.relations) over the relations of one type
\* that point to `to`: the entity of type entityType found for relation.from
LinkedFrom(g, relationType, to, entityType) ==
  LET hits == SelectSeq(g.relations,
                 LAMBDA r : /\ r.relationType = relationType
                            /\ r.to = to
                            /\ FindTyped(g.entities, r.from, entityType) # 0)
  IN  [i \in DOMAIN hits |-> g.entities[FindTyped(g.entities, hits[i].from, entityType)]]

\* the same loop over the relations that start at `from`: the entity of type
\* entityType found for relation.to
LinkedTo(g, relationType, from, entityType) ==
  LET hits == SelectSeq(g.relations,
                 LAMBDA r : /\ r.relationType = relationType
                            /\ r.from = from
                            /\ FindTyped(g.entities, r.to, entityType) # 0)
  IN  [i \in DOMAIN hits |-> g.entities[FindTyped(g.entities, hits[i].to, entityType)]]

\* o.toLowerCase().includes(w) for one of the words
mentions(o, words) == \E w \in words : includes(toLowerCase(o), w)

\* observations.filter(o => o.toLowerCase().includes(...) || ...)
ObservationsMentioning(observations, words) ==
  SelectSeq(observations, LAMBDA o : mentions(o, words))

\* String.prototype.trim, the blank being the white space of the model
RECURSIVE trim(_)
trim(s) ==
  IF Len(s) = 0 THEN ""
  ELSE IF SubSeq(s, 1, 1) = " " THEN trim(SubSeq(s, 2, Len(s)))
  ELSE IF SubSeq(s, Len(s), Len(s)) = " " THEN trim(SubSeq(s, 1, Len(s) - 1))
  ELSE s

\* s.split(sep)[1] for a one-character separator: the text between the first
\* separator and the next, "" standing for undefined as well
secondPart(s, sep) ==
  LET at == {i \in 1..Len(s) : SubSeq(s, i, i) = sep}
  IN  IF at = {} THEN ""
      ELSE LET first == MinOf(at)
               later == {i \in at : i > first}
           IN  SubSeq(s, first + 1, IF later = {} THEN Len(s) ELSE MinOf(later) - 1)

\* s.split(sep)[1]?.trim()
splitSecond(s, sep) == trim(secondPart(s, sep))

\* observations.find(o => o.startsWith(p1) || ...), "" if there is none
FindObservation(observations, prefixes) ==
  LET hits == {i \in DOMAIN observations :
                 \E p \in prefixes : startsWith(observations[i], p)}
  IN  IF hits = {} THEN "" ELSE observations[MinOf(hits)]

\* obs ? obs.split(':')[1].trim() : default
Metadata(observations, prefixes, default) ==
  IF FindObservation(observations, prefixes) = "" THEN default
  ELSE splitSecond(FindObservation(observations, prefixes), ":")

\* readGraph returns what loadGraph read
readGraph(g) == Returned(g, g)

\* the filtered graph is written back to the file
openNodesSavingResult(g, names) ==
  LET result ==
        [entities |-> SelectSeq(g.entities, LAMBDA e : e.name \in Range(names)),
         relations |-> SelectSeq(g.relations,
                                 LAMBDA r : r.from \in Range(names) /\ r.to \in Range(names))]
  IN  Returned(result, result)

openNodes(g, names) ==
  Returned(g,
    [entities |-> SelectSeq(g.entities, LAMBDA e : e.name \in Range(names)),
     relations |-> SelectSeq(g.relations,
                             LAMBDA r : r.from \in Range(names) /\ r.to \in Range(names))])

\* let totalVariables = 0; for (const dataset of datasets) totalVariables +=
\* <the variables found for the contains relations of dataset.name>.length
RECURSIVE countVariables(_, _)
countVariables(g, datasets) ==
  IF datasets = <<>> THEN 0
  ELSE Len(LinkedTo(g, "contains", Head(datasets).name, "variable"))
         + countVariables(g, Tail(datasets))

getProjectOverview(g, projectName) ==
  IF FindTyped(g.entities, projectName, "project") = 0
  THEN Thrown(g, <<"ProjectNotFound", projectName>>)
  ELSE LET project == g.entities[FindTyped(g.entities, projectName, "project")]
           datasets == LinkedFrom(g, "part_of", projectName, "dataset")
           hypotheses == LinkedFrom(g, "part_of", projectName, "hypothesis")
           models == LinkedFrom(g, "part_of", projectName, "model")
       IN  Returned(g,
             [ project |-> project,
               researchQuestions |-> LinkedFrom(g, "part_of", projectName, "researchQuestion"),
               methodology |-> ObservationsMentioning(project.observations,
                                                      {"method", "approach", "design"}),
               participants |-> ObservationsMentioning(project.observations,
                                                       {"participant", "sample", "subject"}),
               dataCollection |-> [ datasets |-> Len(datasets),
                                    totalVariables |-> countVariables(g, datasets),
                                    datasetList |-> datasets ],
               analysis |-> [ hypotheses |-> Len(hypotheses),
                              models |-> Len(models),
                              hypothesisList |-> hypotheses,
                              modelsList |-> models ],
               findings |-> LinkedFrom(g, "part_of", projectName, "finding") ])

\* sizeObs ? sizeObs.split(':')[1]?.trim() || sizeObs.split('=')[1]?.trim()
\*         : 'unknown'
datasetSize(observations) ==
  LET sizeObs == FindObservation(observations, {"Size:", "n=", "N="})
  IN  IF sizeObs = "" THEN "unknown"
      ELSE OrElse(splitSecond(sizeObs, ":"), splitSecond(sizeObs, "="))

\* variables.filter(v => v.observations.some(o => <o mentions a keyword>))
VariablesMentioning(variables, words) ==
  SelectSeq(variables, LAMBDA v : \E o \in Range(v.observations) : mentions(o, words))

\* the variables of the dataset by role, each bucket filtered on its own
\* keywords; other: in none of the three
variablesByRole(variables) ==
  LET independentVariables == VariablesMentioning(variables, {"independent", "predictor", "iv"})
      dependentVariables == VariablesMentioning(variables, {"dependent", "outcome", "dv"})
      controlVariables == VariablesMentioning(variables, {"control", "covariate"})
  IN  [ count |-> Len(variables),
        independent |-> independentVariables,
        dependent |-> dependentVariables,
        control |-> controlVariables,
        other |-> SelectSeq(variables,
                    LAMBDA v : /\ v \notin Range(independentVariables)
                               /\ v \notin Range(dependentVariables)
                               /\ v \notin Range(controlVariables)) ]

getDatasetAnalysis(g, datasetName) ==
  IF FindTyped(g.entities, datasetName, "dataset") = 0
  THEN Thrown(g, <<"DatasetNotFound", datasetName>>)
  ELSE LET dataset == g.entities[FindTyped(g.entities, datasetName, "dataset")]
       IN  Returned(g,
             [ dataset |-> dataset,
               metadata |-> [ size |-> datasetSize(dataset.observations),
                              source |-> Metadata(dataset.observations, {"Source:"}, "unknown"),
                              date |-> Metadata(dataset.observations,
                                                {"Date:", "Collected:"}, "unknown"),
                              status |-> Metadata(dataset.observations, {"Status:"}, "unknown") ],
               variables |-> variablesByRole(LinkedTo(g, "contains", datasetName, "variable")),
               analysis |-> [ statisticalTests |->
                                LinkedFrom(g, "analyzes", datasetName, "statisticalTest"),
                              models |-> LinkedFrom(g, "analyzes", datasetName, "model"),
                              visualizations |->
                                LinkedFrom(g, "visualizes", datasetName, "visualization") ] ])

\* hypotheses.map(hypothesis => ...): its tests with their results, and the
\* status read from its observations
hypothesisAnalysis(g, hypothesis) ==
  LET tests == LinkedFrom(g, "tests", hypothesis.name, "statisticalTest")
      status == Metadata(hypothesis.observations, {"Status:"}, "unknown")
  IN  [ hypothesis |-> hypothesis,
        status |-> status,
        isSupported |-> (status = "supported"),
        tests |-> [i \in DOMAIN tests |->
                     [ test |-> tests[i],
                       results |-> LinkedTo(g, "produces", tests[i].name, "result") ]] ]

\* hypothesisName "" stands for the argument left out
getHypothesisTests(g, projectName, hypothesisName) ==
  IF FindTyped(g.entities, projectName, "project") = 0
  THEN Thrown(g, <<"ProjectNotFound", projectName>>)
  ELSE IF hypothesisName # "" /\ FindTyped(g.entities, hypothesisName, "hypothesis") = 0
  THEN Thrown(g, <<"HypothesisNotFound", hypothesisName>>)
  ELSE LET hypotheses ==
             IF hypothesisName # ""
             THEN <<g.entities[FindTyped(g.entities, hypothesisName, "hypothesis")]>>
             ELSE LinkedFrom(g, "part_of", projectName, "hypothesis")
       IN  Returned(g,
             [ project |-> g.entities[FindTyped(g.entities, projectName, "project")],
               hypotheses |-> [i \in DOMAIN hypotheses |->
                                 hypothesisAnalysis(g, hypotheses[i])] ])

\* the strength and direction read from the other variable's observation
\* about its correlation with variableName
correlationWith(otherVariable, variableName) ==
  LET hits == {i \in DOMAIN otherVariable.observations :
                 includes(otherVariable.observations[i], "correlation with " \o variableName)}
      strengthObs == IF hits = {} THEN "" ELSE otherVariable.observations[MinOf(hits)]
  IN  [ variable |-> otherVariable,
        strength |-> IF hits = {} THEN "unknown"
                     ELSE IF includes(toLowerCase(strengthObs), "weak") THEN "weak"
                     ELSE IF includes(toLowerCase(strengthObs), "moderate") THEN "moderate"
                     ELSE IF includes(toLowerCase(strengthObs), "strong") THEN "strong"
                     ELSE "unknown",
        direction |-> IF hits = {} THEN "unknown"
                      ELSE IF includes(toLowerCase(strengthObs), "positive") THEN "positive"
                      ELSE IF includes(toLowerCase(strengthObs), "negative") THEN "negative"
                      ELSE "unknown" ]

\* the entity of any type found for relation.to, over the relations of one
\* type that start at `from`
LinkedToAny(g, relationType, from) ==
  LET hits == SelectSeq(g.relations,
                 LAMBDA r : /\ r.relationType = relationType
                            /\ r.from = from
                            /\ FindEntity(g.entities, r.to) # 0)
  IN  [i \in DOMAIN hits |-> g.entities[FindEntity(g.entities, hits[i].to)]]

getVariableRelationships(g, variableName) ==
  IF FindTyped(g.entities, variableName, "variable") = 0
  THEN Thrown(g, <<"VariableNotFound", variableName>>)
  ELSE LET variable == g.entities[FindTyped(g.entities, variableName, "variable")]
           otherVariableName(r) == IF r.from = variableName THEN r.to ELSE r.from
           correlated ==
             SelectSeq(g.relations,
               LAMBDA r : /\ r.relationType = "correlates_with"
                          /\ (r.from = variableName \/ r.to = variableName)
                          /\ FindTyped(g.entities, otherVariableName(r), "variable") # 0)
           testName(r) == IF r.relationType = "analyzes" THEN r.from ELSE r.to
           tested ==
             SelectSeq(g.relations,
               LAMBDA r : /\ (r.from = variableName \/ r.to = variableName)
                          /\ r.relationType \in {"analyzes", "tests"}
                          /\ FindTyped(g.entities, testName(r), "statisticalTest") # 0)
       IN  Returned(g,
             [ variable |-> variable,
               datasets |-> LinkedFrom(g, "contains", variableName, "dataset"),
               metadata |->
                 [ dataType |-> Metadata(variable.observations,
                                         {"Type:", "Data Type:"}, "unknown"),
                   role |-> Metadata(variable.observations, {"Role:"}, "unknown"),
                   description |-> Metadata(variable.observations,
                                            {"Description:"}, "unknown") ],
               relationships |->
                 [ correlations |->
                     [i \in DOMAIN correlated |->
                        correlationWith(
                          g.entities[FindTyped(g.entities,
                                               otherVariableName(correlated[i]), "variable")],
                          variableName)],
                   predicts |-> LinkedTo(g, "predicts", variableName, "variable"),
                   predictedBy |-> LinkedFrom(g, "predicts", variableName, "variable"),
                   moderates |-> LinkedToAny(g, "moderates", variableName),
                   mediates |-> LinkedToAny(g, "mediates", variableName) ],
               statisticalTests |->
                 [i \in DOMAIN tested |->
                    g.entities[FindTyped(g.entities, testName(tested[i]),
                                         "statisticalTest")]] ])

\* if (x && !list.some(t => t.name === x.name)) list.push(x), for each x
RECURSIVE pushUnseen(_, _)
pushUnseen(list, found) ==
  IF found = <<>> THEN list
  ELSE pushUnseen(
         IF \E t \in Range(list) : t.name = Head(found).name
         THEN list ELSE Append(list, Head(found)),
         Tail(found))

\* for (const target of targets) for (const relation of graph.relations):
\* the entities of type entityType found for the relations of one type that
\* point to one of the targets, target by target
RECURSIVE LinkedFromEach(_, _, _, _)
LinkedFromEach(g, relationType, targets, entityType) ==
  IF targets = <<>> THEN <<>>
  ELSE LinkedFrom(g, relationType, Head(targets).name, entityType)
         \o LinkedFromEach(g, relationType, Tail(targets), entityType)

\* results.flatMap(r => r.observations)
RECURSIVE flatObservations(_)
flatObservations(results) ==
  IF results = <<>> THEN <<>>
  ELSE Head(results).observations \o flatObservations(Tail(results))

\* statisticalTests.map(test => ...): what the test is linked to, and the
\* metadata read from the observations
testResult(g, test) ==
  LET results == LinkedTo(g, "produces", test.name, "result")
      observations == flatObservations(results)
      hits == {i \in DOMAIN observations :
                 mentions(observations[i], {"p value:", "p-value:", "significance:"})}
      significance == IF hits = {} THEN "unknown"
                      ELSE splitSecond(observations[MinOf(hits)], ":")
  IN  [ test |-> test,
        type |-> Metadata(test.observations, {"Type:"}, "unknown"),
        status |-> Metadata(test.observations, {"Status:"}, "unknown"),
        hypotheses |-> LinkedTo(g, "tests", test.name, "hypothesis"),
        datasets |-> LinkedTo(g, "analyzes", test.name, "dataset"),
        variables |-> LinkedTo(g, "analyzes", test.name, "variable"),
        results |-> results,
        significance |-> significance,
        isSignificant |->
          /\ significance # "unknown"
          /\ \/ includes(toLowerCase(significance), "significant")
             \/ /\ includes(significance, "p")
                /\ includes(significance, "<")
                /\ includes(significance, "0.05") ]

\* the tests that are part_of the project, then the tests analyzing one of
\* the project's datasets that are not in the list by name; testType ""
\* stands for the argument left out
projectTests(g, projectName, testType) ==
  LET statisticalTests ==
        pushUnseen(LinkedFrom(g, "part_of", projectName, "statisticalTest"),
                   LinkedFromEach(g, "analyzes",
                                  LinkedFrom(g, "part_of", projectName, "dataset"),
                                  "statisticalTest"))
  IN  IF testType = "" THEN statisticalTests
      ELSE SelectSeq(statisticalTests,
             LAMBDA test : \E o \in Range(test.observations) :
                              includes(toLowerCase(o), toLowerCase(testType)))

getStatisticalResults(g, projectName, testType) ==
  IF FindTyped(g.entities, projectName, "project") = 0
  THEN Thrown(g, <<"ProjectNotFound", projectName>>)
  ELSE LET statisticalTests == projectTests(g, projectName, testType)
           testResults == [i \in DOMAIN statisticalTests |->
                             testResult(g, statisticalTests[i])]
       IN  Returned(g,
             [ project |-> g.entities[FindTyped(g.entities, projectName, "project")],
               testResults |-> testResults,
               testsByType |->
                 [t \in {r.type : r \in Range(testResults)} |->
                    SelectSeq(testResults, LAMBDA r : r.type = t)],
               significantResults |-> SelectSeq(testResults, LAMBDA r : r.isSignificant) ])

\* visualizations.map(visualization => ...)
visualizationDetail(g, visualization) ==
  [ visualization |-> visualization,
    type |-> Metadata(visualization.observations, {"Type:"}, "unknown"),
    title |-> Metadata(visualization.observations, {"Title:"}, visualization.name),
    description |-> Metadata(visualization.observations, {"Description:"}, ""),
    variables |-> LinkedTo(g, "visualizes", visualization.name, "variable") ]

\* datasetName "" stands for the argument left out; dataset <<>> for undefined
getVisualizationGallery(g, projectName, datasetName) ==
  IF FindTyped(g.entities, projectName, "project") = 0
  THEN Thrown(g, <<"ProjectNotFound", projectName>>)
  ELSE IF datasetName # "" /\ FindTyped(g.entities, datasetName, "dataset") = 0
  THEN Thrown(g, <<"DatasetNotFound", datasetName>>)
  ELSE LET visualizations ==
             IF datasetName # ""
             THEN LinkedFrom(g, "visualizes", datasetName, "visualization")
             ELSE pushUnseen(
                    pushUnseen(<<>>,
                      LinkedFromEach(g, "visualizes",
                                     LinkedFrom(g, "part_of", projectName, "dataset"),
                                     "visualization")),
                    LinkedFromEach(g, "visualizes",
                                   LinkedFrom(g, "part_of", projectName, "model"),
                                   "visualization"))
           typeOf(v) == Metadata(v.observations, {"Type:"}, "Other")
       IN  Returned(g,
             [ project |-> g.entities[FindTyped(g.entities, projectName, "project")],
               dataset |-> IF datasetName = "" THEN <<>>
                           ELSE g.entities[FindTyped(g.entities, datasetName, "dataset")],
               visualizations |-> [i \in DOMAIN visualizations |->
                                     visualizationDetail(g, visualizations[i])],
               visualizationsByType |->
                 [t \in {typeOf(v) : v \in Range(visualizations)} |->
                    SelectSeq(visualizations, LAMBDA v : typeOf(v) = t)],
               count |-> Len(visualizations) ])

getModelPerformance(g, modelName) ==
  IF FindTyped(g.entities, modelName, "model") = 0
  THEN Thrown(g, <<"ModelNotFound", modelName>>)
  ELSE LET model == g.entities[FindTyped(g.entities, modelName, "model")]
           \* find(e => name, type 'variable' and an observation about the outcome)
           outcomeAt(n) ==
             {i \in DOMAIN g.entities :
                /\ g.entities[i].name = n
                /\ g.entities[i].entityType = "variable"
                /\ \E o \in Range(g.entities[i].observations) :
                      mentions(o, {"dependent", "outcome", "dv"})}
           contained == SelectSeq(g.relations,
                          LAMBDA r : /\ r.relationType = "contains"
                                     /\ r.from = modelName
                                     /\ outcomeAt(r.to) # {})
       IN  Returned(g,
             [ model |-> model,
               modelType |-> Metadata(model.observations, {"Type:"}, "unknown"),
               variables |-> LinkedTo(g, "includes", modelName, "variable"),
               predictors |-> LinkedTo(g, "predicts", modelName, "variable"),
               outcomes |-> [i \in DOMAIN contained |->
                               g.entities[MinOf(outcomeAt(contained[i].to))]],
               datasets |-> LinkedTo(g, "analyzes", modelName, "dataset"),
               results |-> LinkedTo(g, "produces", modelName, "result"),
               performanceMetrics |->
                 ObservationsMentioning(model.observations,
                   {"r-squared", "mse", "rmse", "mae", "aic", "bic",
                    "accuracy", "precision", "recall", "f1"}),
               validation |->
                 ObservationsMentioning(model.observations,
                   {"validation", "cross-validation", "test data"}),
               visualizations |-> LinkedFrom(g, "visualizes", modelName, "visualization") ])

\* project <<>> stands for undefined
getResearchQuestionResults(g, questionName) ==
  IF FindTyped(g.entities, questionName, "researchQuestion") = 0
  THEN Thrown(g, <<"QuestionNotFound", questionName>>)
  ELSE LET projects == LinkedTo(g, "part_of", questionName, "project")
           hypotheses == LinkedTo(g, "related_to", questionName, "hypothesis")
       IN  Returned(g,
             [ question |-> g.entities[FindTyped(g.entities, questionName,
                                                 "researchQuestion")],
               project |-> IF projects = <<>> THEN <<>> ELSE Head(projects),
               directResults |-> LinkedFrom(g, "answers", questionName, "result"),
               findings |-> LinkedFrom(g, "answers", questionName, "finding"),
               hypotheses |-> [i \in DOMAIN hypotheses |->
                                 hypothesisAnalysis(g, hypotheses[i])] ])

\* the prefixes getVariableDistribution looks for
statKeys ==
  << "Mean:", "Median:", "Mode:", "Range:", "Minimum:", "Maximum:",
     "Standard Deviation:", "Variance:", "Skewness:", "Kurtosis:", "n=", "N=" >>

\* key.replace(':', '')
statName(key) ==
  IF SubSeq(key, Len(key), Len(key)) = ":" THEN SubSeq(key, 1, Len(key) - 1) ELSE key

\* obs.split(':')[1]?.trim() || obs.split('=')[1]?.trim(), "" when falsy
statValue(observations, key) ==
  LET obs == FindObservation(observations, {key})
  IN  IF obs = "" THEN "" ELSE OrElse(splitSecond(obs, ":"), splitSecond(obs, "="))

\* the named dataset is taken without looking for the contains relation
getVariableDistributionUnverified(g, variableName, datasetName) ==
  IF FindTyped(g.entities, variableName, "variable") = 0
  THEN Thrown(g, <<"VariableNotFound", variableName>>)
  ELSE IF datasetName # "" /\ FindTyped(g.entities, datasetName, "dataset") = 0
  THEN Thrown(g, <<"DatasetNotFound", datasetName>>)
  ELSE LET variable == g.entities[FindTyped(g.entities, variableName, "variable")]
           found == {k \in Range(statKeys) : statValue(variable.observations, k) # ""}
       IN  Returned(g,
             [ variable |-> variable,
               datasets |->
                 IF datasetName # ""
                 THEN <<g.entities[FindTyped(g.entities, datasetName, "dataset")]>>
                 ELSE LinkedFrom(g, "contains", variableName, "dataset"),
               metadata |->
                 [ dataType |-> Metadata(variable.observations,
                                         {"Type:", "Data Type:"}, "unknown"),
                   role |-> Metadata(variable.observations, {"Role:"}, "unknown"),
                   scale |-> Metadata(variable.observations,
                                      {"Scale:", "Measurement Scale:"}, "unknown") ],
               distribution |->
                 [ descriptiveStats |->
                     [n \in {statName(k) : k \in found} |->
                        statValue(variable.observations,
                                  CHOOSE k \in found : statName(k) = n)],
                   normality |->
                     ObservationsMentioning(variable.observations,
                                            {"normality", "shapiro", "kolmogorov"}) ],
               visualizations |->
                 LinkedFrom(g, "visualizes", variableName, "visualization") ])

\* datasetName "" stands for the argument left out
getVariableDistribution(g, variableName, datasetName) ==
  IF FindTyped(g.entities, variableName, "variable") = 0
  THEN Thrown(g, <<"VariableNotFound", variableName>>)
  ELSE IF datasetName # "" /\ FindTyped(g.entities, datasetName, "dataset") = 0
  THEN Thrown(g, <<"DatasetNotFound", datasetName>>)
  ELSE IF /\ datasetName # ""
          /\ ~\E r \in Range(g.relations) :
                r.relationType = "contains" /\ r.from = datasetName /\ r.to = variableName
  THEN Thrown(g, <<"DoesNotContain", datasetName, variableName>>)
  ELSE LET variable == g.entities[FindTyped(g.entities, variableName, "variable")]
           found == {k \in Range(statKeys) : statValue(variable.observations, k) # ""}
       IN  Returned(g,
             [ variable |-> variable,
               datasets |->
                 IF datasetName # ""
                 THEN <<g.entities[FindTyped(g.entities, datasetName, "dataset")]>>
                 ELSE LinkedFrom(g, "contains", variableName, "dataset"),
               metadata |->
                 [ dataType |-> Metadata(variable.observations,
                                         {"Type:", "Data Type:"}, "unknown"),
                   role |-> Metadata(variable.observations, {"Role:"}, "unknown"),
                   scale |-> Metadata(variable.observations,
                                      {"Scale:", "Measurement Scale:"}, "unknown") ],
               distribution |->
                 [ descriptiveStats |->
                     [n \in {statName(k) : k \in found} |->
                        statValue(variable.observations,
                                  CHOOSE k \in found : statName(k) = n)],
                   normality |->
                     ObservationsMentioning(variable.observations,
                                            {"normality", "shapiro", "kolmogorov"}) ],
               visualizations |->
                 LinkedFrom(g, "visualizes", variableName, "visualization") ])

\* graph.relations.find(r => r.from === entityName && r.relationType === t):
\* relation.to.split(':')[1], "null" when there is no such relation
valueOfEdge(g, entityName, relationType) ==
  LET hits == {i \in DOMAIN g.relations :
                 /\ g.relations[i].from = entityName
                 /\ g.relations[i].relationType = relationType}
  IN  IF hits = {} THEN "null"
      ELSE secondPart(g.relations[MinOf(hits)].to, ":")

getEntityStatus(g, entityName) == Returned(g, valueOfEdge(g, entityName, "has_status"))

getEntityPriority(g, entityName) == Returned(g, valueOfEdge(g, entityName, "has_priority"))

(* ---------------- buildcontext tool handler ---------------- *)

\* the handler's result: it always returns, carrying a success flag
ToolSuccess(g, field, v) ==
  Returned(g, [success |-> TRUE, kind |-> field, value |-> v])

\* the catch block of the handler
ToolFailure(g, e) == Returned(g, [success |-> FALSE, kind |-> "error", value |-> e])

buildcontext(g, type, data) ==
  CASE type = "entities" ->
         LET bad == {i \in DOMAIN data : ~validateEntityType(data[i].entityType)}
         IN  IF bad # {}
             THEN ToolFailure(g, <<"InvalidType", data[MinOf(bad)].entityType>>)
             ELSE LET typedEntities ==
                        [i \in DOMAIN data |->
                           Entity(data[i].name, data[i].entityType, data[i].observations)]
                      result == createEntities(g, typedEntities)
                  IN  IF result.ok
                      THEN ToolSuccess(result.graph, "created", result.ret)
                      ELSE ToolFailure(result.graph, result.err)
    [] type = "relations" ->
         LET bad == {i \in DOMAIN data : ~validateRelationType(data[i].relationType)}
         IN  IF bad # {}
             THEN ToolFailure(g, <<"InvalidType", data[MinOf(bad)].relationType>>)
             ELSE LET typedRelations ==
                        [i \in DOMAIN data |->
                           Relation(data[i].from, data[i].to, data[i].relationType)]
                      result == createRelations(g, typedRelations)
                  IN  IF result.ok
                      THEN ToolSuccess(result.graph, "created", result.ret)
                      ELSE ToolFailure(result.graph, result.err)
    [] type = "observations" ->
         LET typedObservations ==
               [i \in DOMAIN data |->
                  [entityName |-> data[i].entityName, contents |-> data[i].contents]]
             result == addObservations(g, typedObservations)
         IN  IF result.ok
             THEN ToolSuccess(result.graph, "added", result.ret)
             ELSE ToolFailure(result.graph, result.err)
    [] OTHER -> ToolFailure(g, <<"InvalidOperation", type>>)

(* ---------------- session stage machine ---------------- *)

\* an optional field of a stage data record: undefined reads as ""
Get(rec, f) == IF f \in DOMAIN rec THEN rec[f] ELSE ""

\* an optional list of a stage data record: undefined reads as []
GetList(rec, f) == IF f \in DOMAIN rec THEN rec[f] ELSE <<>>

\* the stageData of a call that supplies none
NoStageData == [absent |-> TRUE]

\* JSON.stringify and JSON.parse of a list of plain records: the text carries
\* the list, and parsing the text gives the list back
JSONstringify(v) == [json |-> v]

JSONparse(text) == text.json

\* the last record of the stage kind is taken
FindStageLatest(stages, kind) ==
  LET hits == {i \in DOMAIN stages : stages[i].stage = kind}
  IN  IF hits = {} THEN 0 ELSE CHOOSE m \in hits : \A k \in hits : k <= m

\* Array.prototype.find on the stage list: index of the first record of the
\* stage kind, 0 if none
FindStage(stages, kind) ==
  LET hits == {i \in DOMAIN stages : stages[i].stage = kind}
  IN  IF hits = {} THEN 0 ELSE MinOf(hits)

\* stages.find(...)?.stageData of assembleEndSessionArgs
StageDataOf(stages, kind) ==
  IF FindStage(stages, kind) = 0 THEN NoStageData
  ELSE stages[FindStage(stages, kind)].stageData

assembleEndSessionArgs(stages) ==
  [ summary            |-> Get(StageDataOf(stages, "summary"), "summary"),
    duration           |-> OrElse(Get(StageDataOf(stages, "summary"), "duration"), "unknown"),
    project            |-> Get(StageDataOf(stages, "summary"), "project"),
    datasetUpdates     |->
      JSONstringify(GetList(StageDataOf(stages, "datasetUpdates"), "datasets")),
    newAnalyses        |->
      JSONstringify(GetList(StageDataOf(stages, "newAnalyses"), "analyses")),
    newVisualizations  |->
      JSONstringify(GetList(StageDataOf(stages, "newVisualizations"), "visualizations")),
    hypothesisResults  |->
      JSONstringify(GetList(StageDataOf(stages, "hypothesisResults"), "hypotheses")),
    modelUpdates       |->
      JSONstringify(GetList(StageDataOf(stages, "modelUpdates"), "models")),
    projectStatus      |-> Get(StageDataOf(stages, "projectStatus"), "projectStatus"),
    projectObservation |-> Get(StageDataOf(stages, "projectStatus"), "projectObservation") ]

STAGES ==
  { "summary", "datasetUpdates", "newAnalyses", "newVisualizations",
    "hypothesisResults", "modelUpdates", "projectStatus", "assembly" }

\* params.stageData || <the default of the stage kind>
DefaultStageData(stage, timestamp) ==
  CASE stage = "summary" ->
         [summary |-> "", duration |-> "", project |-> "", date |-> timestamp]
    [] stage = "datasetUpdates" -> [datasets |-> <<>>]
    [] stage = "newAnalyses" -> [analyses |-> <<>>]
    [] stage = "newVisualizations" -> [visualizations |-> <<>>]
    [] stage = "hypothesisResults" -> [hypotheses |-> <<>>]
    [] stage = "modelUpdates" -> [models |-> <<>>]
    [] stage = "projectStatus" -> [projectStatus |-> "", projectObservation |-> ""]

\* the stage record of a call, for a stage of STAGES (the switch throws
\* 'Unknown stage' for any other)
processStage(params, previousStages, timestamp) ==
  IF params.stage = "assembly"
  THEN [ stage |-> "assembly", stageNumber |-> params.stageNumber,
         analysis |-> "Final assembly of end-session arguments",
         stageData |-> assembleEndSessionArgs(previousStages),
         completed |-> TRUE ]
  ELSE [ stage |-> params.stage, stageNumber |-> params.stageNumber,
         analysis |-> params.analysis,
         stageData |-> IF params.stageData = NoStageData
                       THEN DefaultStageData(params.stage, timestamp)
                       ELSE params.stageData,
         completed |-> ~params.nextStageNeeded ]

(* ---------------- the commit of endsession ---------------- *)

\* const x = v; ...: v is computed once and the rest reads the value
Let(v, F(_)) == CHOOSE out \in {F(x) : x \in {v}} : TRUE

\* await in a try block: the next manager call runs on the graph the previous
\* one saved, unless the previous one threw
Bind(r, F(_)) == Let(r, LAMBDA x : IF x.ok THEN F(x.graph) ELSE x)

\* [...].filter(Boolean) on strings
FilterBoolean(list) == SelectSeq(list, LAMBDA x : x # "")

\* the statement of an if whose condition may be false
When(cond, g, r) == IF cond THEN r ELSE Returned(g, <<>>)

\* 2. one dataset update: update the dataset the search finds, or create one
datasetUpdateStep(g, project, datasetUpdate) ==
  LET datasetGraph == searchNodes(g, "name:" \o datasetUpdate.name)
      sizes == << "size:" \o OrElse(datasetUpdate.size, "unknown"),
                  "variables:" \o OrElse(datasetUpdate.variables, "unknown") >>
  IN  IF Len(datasetGraph.entities) > 0
      THEN LET datasetEntity == datasetGraph.entities[1]
               observations ==
                 SelectSeq(datasetEntity.observations,
                           LAMBDA o : ~startsWith(o, "size:") /\ ~startsWith(o, "variables:"))
                   \o sizes \o FilterBoolean(<<datasetUpdate.description>>)
           IN  Bind(deleteObservations(g,
                      << [entityName |-> datasetUpdate.name,
                          observations |-> datasetEntity.observations] >>),
                 LAMBDA g1 :
                 Bind(addObservations(g1,
                        << [entityName |-> datasetUpdate.name,
                            contents |-> observations] >>),
                   LAMBDA g2 :
                   When(datasetUpdate.status # "", g2,
                        setEntityStatus(g2, datasetUpdate.name, datasetUpdate.status))))
      ELSE Bind(createEntities(g,
                  << Entity(datasetUpdate.name, "dataset",
                            sizes \o <<OrElse(datasetUpdate.description, "No description")>>) >>),
             LAMBDA g1 :
             Bind(When(datasetUpdate.status # "", g1,
                       setEntityStatus(g1, datasetUpdate.name, datasetUpdate.status)),
               LAMBDA g2 :
               createRelations(g2, <<Relation(project, datasetUpdate.name, "contains")>>)))

RECURSIVE datasetUpdatesLoop(_, _, _)
datasetUpdatesLoop(r, project, datasetUpdates) ==
  IF ~r.ok \/ datasetUpdates = <<>> THEN r
  ELSE datasetUpdatesLoop(datasetUpdateStep(r.graph, project, Head(datasetUpdates)),
                          project, Tail(datasetUpdates))

\* the contains and produced links of a list of new entities, entity by entity
RECURSIVE projectLinks(_, _)
projectLinks(project, entities) ==
  IF entities = <<>> THEN <<>>
  ELSE << Relation(project, Head(entities).name, "contains"),
          Relation(project, Head(entities).name, "produced") >>
         \o projectLinks(project, Tail(entities))

\* one createRelations call per name of the list, from the same entity
RECURSIVE linkEach(_, _, _, _)
linkEach(r, from, names, relationType) ==
  IF ~r.ok \/ names = <<>> THEN r
  ELSE linkEach(createRelations(r.graph, <<Relation(from, Head(names), relationType)>>),
                from, Tail(names), relationType)

\* 3. the new analyses: one entity per entry, of type statistical_test
analysisEntitiesOf(newAnalyses, project, timestamp) ==
  [ i \in DOMAIN newAnalyses |->
      Entity(OrElse(newAnalyses[i].name, "Analysis_" \o timestamp \o "_" \o ToString(i)),
             "statistical_test",
             FilterBoolean(<< "type:" \o newAnalyses[i].type,
                              "result:" \o newAnalyses[i].result,
                              IF newAnalyses[i].pValue # ""
                              THEN "p-value:" \o newAnalyses[i].pValue ELSE "",
                              "project:" \o project >>)) ]

RECURSIVE analysisVariablesLoop(_, _, _, _)
analysisVariablesLoop(r, newAnalyses, analysisEntities, i) ==
  IF ~r.ok \/ i > Len(newAnalyses) THEN r
  ELSE analysisVariablesLoop(
         linkEach(r, analysisEntities[i].name, newAnalyses[i].variables, "analyzes"),
         newAnalyses, analysisEntities, i + 1)

newAnalysesStep(g, project, newAnalyses, timestamp) ==
  IF newAnalyses = <<>> THEN Returned(g, <<>>)
  ELSE LET analysisEntities == analysisEntitiesOf(newAnalyses, project, timestamp)
       IN  Bind(createEntities(g, analysisEntities),
             LAMBDA g1 :
             Bind(createRelations(g1, projectLinks(project, analysisEntities)),
               LAMBDA g2 :
               analysisVariablesLoop(Returned(g2, <<>>), newAnalyses, analysisEntities, 1)))

\* 4. the new visualizations
vizEntitiesOf(newVisualizations, project, timestamp) ==
  [ i \in DOMAIN newVisualizations |->
      Entity(OrElse(newVisualizations[i].name,
                    "Visualization_" \o timestamp \o "_" \o ToString(i)),
             "visualization",
             FilterBoolean(<< "type:" \o newVisualizations[i].type,
                              newVisualizations[i].description,
                              "date:" \o timestamp,
                              IF newVisualizations[i].datasetName # ""
                              THEN "dataset:" \o newVisualizations[i].datasetName ELSE "",
                              "project:" \o project >>)) ]

RECURSIVE vizDatasetsLoop(_, _, _, _)
vizDatasetsLoop(r, newVisualizations, vizEntities, i) ==
  IF ~r.ok \/ i > Len(newVisualizations) THEN r
  ELSE vizDatasetsLoop(
         When(newVisualizations[i].datasetName # "", r.graph,
              createRelations(r.graph,
                << Relation(vizEntities[i].name, newVisualizations[i].datasetName,
                            "visualizes") >>)),
         newVisualizations, vizEntities, i + 1)

newVisualizationsStep(g, project, newVisualizations, timestamp) ==
  IF newVisualizations = <<>> THEN Returned(g, <<>>)
  ELSE LET vizEntities == vizEntitiesOf(newVisualizations, project, timestamp)
       IN  Bind(createEntities(g, vizEntities),
             LAMBDA g1 :
             Bind(createRelations(g1, projectLinks(project, vizEntities)),
               LAMBDA g2 :
               vizDatasetsLoop(Returned(g2, <<>>), newVisualizations, vizEntities, 1)))

\* 5. one hypothesis result: replace the hypothesis the search finds, or
\* create one and link it to the project
hypothesisStep(g, project, hypothesis, timestamp) ==
  LET hypGraph == searchNodes(g, "name:" \o hypothesis.name)
      stored ==
        IF Len(hypGraph.entities) > 0
        THEN LET hypEntity == hypGraph.entities[1]
                 observations ==
                   SelectSeq(hypEntity.observations,
                             LAMBDA o : /\ ~startsWith(o, "status:")
                                        /\ ~startsWith(o, "p-value:")
                                        /\ ~startsWith(o, "updated:"))
                     \o << "status:" \o hypothesis.status, "updated:" \o timestamp >>
                     \o FilterBoolean(<< IF hypothesis.pValue # ""
                                         THEN "p-value:" \o hypothesis.pValue ELSE "",
                                         hypothesis.notes >>)
             IN  Bind(deleteEntities(g, <<hypothesis.name>>),
                   LAMBDA g1 :
                   createEntities(g1, <<Entity(hypothesis.name, "hypothesis", observations)>>))
        ELSE Bind(createEntities(g,
                    << Entity(hypothesis.name, "hypothesis",
                              FilterBoolean(<< "status:" \o hypothesis.status,
                                               "created:" \o timestamp,
                                               "updated:" \o timestamp,
                                               IF hypothesis.pValue # ""
                                               THEN "p-value:" \o hypothesis.pValue ELSE "",
                                               OrElse(hypothesis.notes, "No notes"),
                                               "project:" \o project >>)) >>),
               LAMBDA g1 :
               createRelations(g1, <<Relation(project, hypothesis.name, "contains")>>))
  IN  Bind(stored,
        LAMBDA g2 :
        When(hypothesis.testName # "", g2,
             createRelations(g2,
               <<Relation(hypothesis.name, hypothesis.testName, "tested_by")>>)))

RECURSIVE hypothesisResultsLoop(_, _, _, _)
hypothesisResultsLoop(r, project, hypothesisResults, timestamp) ==
  IF ~r.ok \/ hypothesisResults = <<>> THEN r
  ELSE hypothesisResultsLoop(
         hypothesisStep(r.graph, project, Head(hypothesisResults), timestamp),
         project, Tail(hypothesisResults), timestamp)

\* JSON.stringify of the metrics of a model update; absent metrics are
\* undefined on the update path and {} on the create path
metricsText(metrics, absent) == IF metrics = "" THEN absent ELSE "{" \o metrics \o "}"

\* 6. one model update: replace the model the search finds, or create one and
\* link it to the project and to its dataset
modelUpdateStep(g, project, modelUpdate, timestamp) ==
  LET modelGraph == searchNodes(g, "name:" \o modelUpdate.name)
  IN  IF Len(modelGraph.entities) > 0
      THEN LET modelEntity == modelGraph.entities[1]
               observations ==
                 SelectSeq(modelEntity.observations,
                           LAMBDA o : /\ ~startsWith(o, "performance:")
                                      /\ ~startsWith(o, "updated:"))
                   \o << "performance:" \o metricsText(modelUpdate.metrics, "undefined"),
                         "updated:" \o timestamp >>
                   \o FilterBoolean(<<modelUpdate.notes>>)
           IN  Bind(deleteEntities(g, <<modelUpdate.name>>),
                 LAMBDA g1 :
                 createEntities(g1, <<Entity(modelUpdate.name, "model", observations)>>))
      ELSE Bind(createEntities(g,
                  << Entity(modelUpdate.name, "model",
                            << "type:" \o OrElse(modelUpdate.type, "unknown"),
                               "performance:" \o metricsText(modelUpdate.metrics, "{}"),
                               "created:" \o timestamp,
                               "updated:" \o timestamp,
                               OrElse(modelUpdate.notes, "No notes"),
                               "project:" \o project >>) >>),
             LAMBDA g1 :
             Bind(createRelations(g1, <<Relation(project, modelUpdate.name, "contains")>>),
               LAMBDA g2 :
               When(modelUpdate.datasetName # "", g2,
                    createRelations(g2,
                      <<Relation(modelUpdate.name, modelUpdate.datasetName, "trained_on")>>))))

RECURSIVE modelUpdatesLoop(_, _, _, _)
modelUpdatesLoop(r, project, modelUpdates, timestamp) ==
  IF ~r.ok \/ modelUpdates = <<>> THEN r
  ELSE modelUpdatesLoop(modelUpdateStep(r.graph, project, Head(modelUpdates), timestamp),
                        project, Tail(modelUpdates), timestamp)

\* 7. the project status: applied when the search for the project finds an
\* entity
projectStatusStep(g, project, projectStatus, projectObservation) ==
  LET projectGraph == searchNodes(g, "name:" \o project)
  IN  IF Len(projectGraph.entities) > 0
      THEN Bind(When(projectStatus # "", g, setEntityStatus(g, project, projectStatus)),
             LAMBDA g1 :
             When(projectObservation # "", g1,
                  addObservations(g1, << [entityName |-> project,
                                          contents |-> <<projectObservation>>] >>)))
      ELSE Returned(g, <<>>)

\* the steps of the commit, in the order of the try block
CommitSteps == 6

\* step k of the commit on graph g
commitStep(k, g, endSessionArgs, timestamp) ==
  LET project == endSessionArgs.project
  IN  CASE k = 1 ->
             datasetUpdatesLoop(Returned(g, <<>>), project,
                                JSONparse(endSessionArgs.datasetUpdates))
        [] k = 2 ->
             newAnalysesStep(g, project, JSONparse(endSessionArgs.newAnalyses), timestamp)
        [] k = 3 ->
             newVisualizationsStep(g, project,
                                   JSONparse(endSessionArgs.newVisualizations), timestamp)
        [] k = 4 ->
             hypothesisResultsLoop(Returned(g, <<>>), project,
                                   JSONparse(endSessionArgs.hypothesisResults), timestamp)
        [] k = 5 ->
             modelUpdatesLoop(Returned(g, <<>>), project,
                              JSONparse(endSessionArgs.modelUpdates), timestamp)
        [] k = 6 ->
             projectStatusStep(g, project, endSessionArgs.projectStatus,
                               endSessionArgs.projectObservation)

\* the first k steps: each on the graph the previous one saved; the first
\* throw ends the try block
RECURSIVE commitThrough(_, _, _, _)
commitThrough(k, g, endSessionArgs, timestamp) ==
  IF k = 0 THEN Returned(g, <<>>)
  ELSE Bind(commitThrough(k - 1, g, endSessionArgs, timestamp),
            LAMBDA h : commitStep(k, h, endSessionArgs, timestamp))

\* the try block of the terminal assembly call
commit(g, endSessionArgs, timestamp) ==
  commitThrough(CommitSteps, g, endSessionArgs, timestamp)

(* ---------------- startsession and endsession tool handlers ---------------- *)

\* outcome of a session tool call: both files afterwards and the handler's
\* result (the handlers catch every error and return)
SessionResult(g, ss, success, kind, v) ==
  [graph |-> g, sessions |-> ss, ok |-> TRUE, err |-> <<>>,
   ret |-> [success |-> success, kind |-> kind, value |-> v]]

\* `quant_${Date.now()}_${Math.random().toString(36).substring(2, 15)}`: now
\* is the reading of the clock, random the base-36 digits of the draw
generateSessionId(now, random) == "quant_" \o now \o "_" \o random

\* the session is not stored
startsessionNoSave(ss, g, now, random) ==
  SessionResult(g, ss, TRUE, "session", generateSessionId(now, random))

\* sessionStates.set(sessionId, []) and save; the rest of the handler reads
\* the graph for the report it returns
startsession(ss, g, now, random) ==
  LET sessionId == generateSessionId(now, random)
  IN  SessionResult(g, (sessionId :> <<>>) @@ ss, TRUE, "session", sessionId)

\* a revision is appended like any other call
storeStageAppendOnly(sessionState, params, stageResult) ==
  Append(sessionState, [type |-> "analysis_stage"] @@ stageResult)

\* nothing is recorded once the list holds a completed assembly record
storeStageClosed(sessionState, params, stageResult) ==
  IF \E i \in DOMAIN sessionState :
        sessionState[i].stage = "assembly" /\ sessionState[i].completed
  THEN sessionState
  ELSE Append(sessionState, [type |-> "analysis_stage"] @@ stageResult)

\* the stage list with the record of the call: a revision of a recorded
\* position replaces that position, every other call appends
storeStage(sessionState, params, stageResult) ==
  LET record == [type |-> "analysis_stage"] @@ stageResult
      analysisStages == SelectSeq(sessionState, LAMBDA item : item.type = "analysis_stage")
      others == SelectSeq(sessionState, LAMBDA item : item.type # "analysis_stage")
  IN  IF params.isRevision /\ params.revisesStage # 0
      THEN IF params.revisesStage <= Len(analysisStages)
           THEN others \o [analysisStages EXCEPT ![params.revisesStage] = record]
           ELSE others \o Append(analysisStages, record)
      ELSE Append(sessionState, record)

\* every assembly call runs the commit
commitNeededAnyAssembly(params) == params.stage = "assembly"

\* the condition under which the handler goes on to the commit
commitNeeded(params) == params.stage = "assembly" /\ ~params.nextStageNeeded

\* the graph is put back as it was before the commit
commitCaughtRestore(g, ss, c) ==
  SessionResult(g, ss, FALSE, "text",
                <<"Error recording quantitative research session">> \o c.err)

\* the catch block of the commit: the error text is returned, the graph file
\* stays as the last successful save of the commit left it
commitCaught(g, ss, c) ==
  SessionResult(c.graph, ss, FALSE, "text",
                <<"Error recording quantitative research session">> \o c.err)

\* sessionStates.get(params.sessionId) || []: a call on an unknown id goes on
\* with an empty stage list
endsessionUnknownIdStarts(ss, g, params, timestamp) ==
  Let(IF params.sessionId \in DOMAIN ss THEN ss ELSE (params.sessionId :> <<>>) @@ ss,
    LAMBDA table :
    IF params.stage \notin STAGES
    THEN SessionResult(g, ss, FALSE, "error", <<"UnknownStage", params.stage>>)
    ELSE Let(processStage(params, table[params.sessionId], timestamp),
           LAMBDA stageResult :
           Let([table EXCEPT ![params.sessionId] =
                  storeStage(table[params.sessionId], params, stageResult)],
             LAMBDA saved :
             IF commitNeeded(params)
             THEN Let(commit(g, stageResult.stageData, timestamp),
                    LAMBDA c :
                    IF c.ok
                    THEN SessionResult(c.graph, saved, TRUE, "text",
                           << "Quantitative Research Session Recorded",
                              stageResult.stageData.project,
                              stageResult.stageData.projectStatus >>)
                    ELSE commitCaught(g, saved, c))
             ELSE SessionResult(g, saved, TRUE, "stage", stageResult))))

\* the session state is saved only once the commit has gone through
endsessionSaveAfterCommit(ss, g, params, timestamp) ==
  IF params.sessionId \notin DOMAIN ss
  THEN SessionResult(g, ss, FALSE, "error", <<"SessionNotFound", params.sessionId>>)
  ELSE IF params.stage \notin STAGES
  THEN SessionResult(g, ss, FALSE, "error", <<"UnknownStage", params.stage>>)
  ELSE Let(processStage(params, ss[params.sessionId], timestamp),
         LAMBDA stageResult :
         Let([ss EXCEPT ![params.sessionId] =
                storeStage(ss[params.sessionId], params, stageResult)],
           LAMBDA saved :
           IF commitNeeded(params)
           THEN Let(commit(g, stageResult.stageData, timestamp),
                  LAMBDA c :
                  IF c.ok
                  THEN SessionResult(c.graph, saved, TRUE, "text",
                         << "Quantitative Research Session Recorded",
                            stageResult.stageData.project,
                            stageResult.stageData.projectStatus >>)
                  ELSE commitCaught(g, ss, c))
           ELSE SessionResult(g, saved, TRUE, "stage", stageResult)))

endsession(ss, g, params, timestamp) ==
  IF params.sessionId \notin DOMAIN ss
  THEN SessionResult(g, ss, FALSE, "error", <<"SessionNotFound", params.sessionId>>)
  ELSE IF params.stage \notin STAGES
  THEN SessionResult(g, ss, FALSE, "error", <<"UnknownStage", params.stage>>)
  ELSE Let(processStage(params, ss[params.sessionId], timestamp),
         LAMBDA stageResult :
         Let([ss EXCEPT ![params.sessionId] =
                storeStage(ss[params.sessionId], params, stageResult)],
           LAMBDA saved :
           IF commitNeeded(params)
           THEN Let(commit(g, stageResult.stageData, timestamp),
                  LAMBDA c :
                  IF c.ok
                  THEN SessionResult(c.graph, saved, TRUE, "text",
                         << "Quantitative Research Session Recorded",
                            stageResult.stageData.project,
                            stageResult.stageData.projectStatus >>)
                  ELSE commitCaught(g, saved, c))
           ELSE SessionResult(g, saved, TRUE, "stage", stageResult)))

(* ---------------- inputs ---------------- *)

\* names of the entities that calls create and delete; "Ghost" is never created
Names == {"A", "B"}

EntityInputs ==
  { Entity("A", "project", <<>>),
    Entity("A", "dataset", <<"o1">>),
    Entity("B", "dataset", <<>>),
    Entity("B", "not_a_type", <<>>) }

EntityBatches == SeqsUpTo(EntityInputs, MaxBatch)

RelationInputs ==
  { Relation("A", "B", "contains"),
    Relation("B", "B", "cites"),
    Relation("A", "A", "not_a_relation"),
    Relation("A", "Ghost", "contains") }

RelationBatches == SeqsUpTo(RelationInputs, MaxBatch)

ObservationInputs ==
  { [entityName |-> "A", contents |-> <<"o2", "o2">>],
    [entityName |-> "B", contents |-> <<"o1">>] }

ObservationBatches == SeqsUpTo(ObservationInputs, MaxBatch)

NameBatches == SeqsUpTo(Names, MaxBatch)

DeletionInputs ==
  { [entityName |-> "A", observations |-> <<"o2">>],
    [entityName |-> "B", observations |-> <<"o1", "o2">>] }

DeletionBatches == SeqsUpTo(DeletionInputs, MaxBatch)

RelationDeletionBatches ==
  SeqsUpTo({r \in RelationInputs : r.to \in Names /\ validateRelationType(r.relationType)},
           MaxBatch)

\* entities that take the name of a status value entity
StatusEntityInputs ==
  { Entity("status:active", "project", <<>>),
    Entity("status:active", "status", <<"A active status value">>) }

StatusEntityBatches == SeqsUpTo(StatusEntityInputs, MaxBatch)

\* the entities that carry a status and a priority
StatusSubjectInputs ==
  { Entity("A", "project", <<>>),
    Entity("B", "dataset", <<>>) }

StatusSubjectBatches == SeqsUpTo(StatusSubjectInputs, MaxBatch)

\* has_status and has_priority edges stored through createRelations
StatusRelationInputs ==
  { Relation("A", "A", "has_status"),
    Relation("A", "B", "has_status"),
    Relation("A", "A", "has_priority") }

StatusRelationBatches == SeqsUpTo(StatusRelationInputs, MaxBatch)

\* "in_progress" is the project status of the endsession examples; it is not
\* a valid status value
StatusValueInputs == {"active", "completed", "in_progress"}

PriorityValueInputs == {"high", "low", "medium"}

\* draws of Math.random, as the base-36 digits that enter the id
RandomInputs == {"k3x"}

\* readings of the clock during a call
Timestamps == {"1700"}

\* the session ids that startsession generates from these
SessionIds == {generateSessionId(now, random) : now \in Timestamps, random \in RandomInputs}

\* the arguments of an endsession call that is not a revision
Params(sessionId, stage, stageNumber, stageData, nextStageNeeded) ==
  [ sessionId |-> sessionId, stage |-> stage, stageNumber |-> stageNumber,
    analysis |-> "", stageData |-> stageData, nextStageNeeded |-> nextStageNeeded,
    isRevision |-> FALSE, revisesStage |-> 0 ]

\* a project
ProjectInputs == { Entity("P", "project", <<>>) }

\* a project that carries the text that the name search of the commit looks for
NamedProjectInputs == { Entity("P", "project", <<"name:P">>) }

\* a stored dataset, without and with the text that the name search looks for
DatasetInputs ==
  { Entity("D", "dataset", <<"size:1", "variables:1">>),
    Entity("D", "dataset", <<"size:1", "name:D">>) }

SummaryData == { [summary |-> "done", duration |-> "", project |-> "P"] }

DatasetUpdatesData ==
  { [datasets |-> << [name |-> "D", size |-> "10", variables |-> "3",
                      status |-> "", description |-> ""] >>] }

\* a named analysis and an unnamed one
NewAnalysesData ==
  { [analyses |-> << [name |-> "T", type |-> "t_test", result |-> "ns",
                      pValue |-> "", variables |-> <<>>],
                     [name |-> "", type |-> "anova", result |-> "sig",
                      pValue |-> "0.01", variables |-> <<>>] >>] }

NewVisualizationsData ==
  { [visualizations |-> << [name |-> "V", type |-> "scatter", description |-> "",
                            datasetName |-> ""] >>] }

HypothesisResultsData ==
  { [hypotheses |-> << [name |-> "H", status |-> "confirmed", pValue |-> "",
                        notes |-> "", testName |-> ""] >>] }

\* a valid status value, and the project status of the endsession examples
ProjectStatusData ==
  { [projectStatus |-> "active", projectObservation |-> ""],
    [projectStatus |-> "in_progress", projectObservation |-> "phase 1"] }

\* the callers whose manager calls may overlap
Callers == {"c1", "c2"}

\* a caller with no call in progress and none completed
NoCall ==
  [pc |-> "idle", op |-> "none", args |-> <<>>, loaded |-> EmptyGraph,
   missed |-> {}, ok |-> TRUE, ret |-> <<>>]

\* entities of the overlapping calls
RaceEntityInputs ==
  { Entity("A", "project", <<>>),
    Entity("B", "dataset", <<>>) }

(* ---------------- the state machine ---------------- *)

\* the record kept of a call: its arguments, its outcome, and the sizes of the
\* graph it started from
CallRecord(op, args, r, g) ==
  [op |-> op, args |-> args, ok |-> r.ok, err |-> r.err, ret |-> r.ret,
   before |-> Sizes(g)]

Init ==
  /\ graph = EmptyGraph
  /\ last = [op |-> "none", args |-> <<>>, ok |-> TRUE, err |-> <<>>,
             ret |-> <<>>, before |-> <<0, 0, 0>>]
  /\ sessions = <<>>
  /\ calls = [c \in Callers |-> NoCall]

CreateEntities ==
  \E b \in EntityBatches :
     LET r == createEntities(graph, b)
     IN  /\ Fits(graph, r.graph)
         /\ graph' = r.graph
         /\ last' = CallRecord("createEntities", b, r, graph)
         /\ UNCHANGED <<sessions, calls>>

CreateRelations ==
  \E b \in RelationBatches :
     LET r == createRelations(graph, b)
     IN  /\ Fits(graph, r.graph)
         /\ graph' = r.graph
         /\ last' = CallRecord("createRelations", b, r, graph)
         /\ UNCHANGED <<sessions, calls>>

AddObservations ==
  \E b \in ObservationBatches :
     LET r == addObservations(graph, b)
     IN  /\ Fits(graph, r.graph)
         /\ graph' = r.graph
         /\ last' = CallRecord("addObservations", b, r, graph)
         /\ UNCHANGED <<sessions, calls>>

DeleteEntities ==
  \E b \in NameBatches :
     LET r == deleteEntities(graph, b)
     IN  /\ graph' = r.graph
         /\ last' = CallRecord("deleteEntities", b, r, graph)
         /\ UNCHANGED <<sessions, calls>>

DeleteObservations ==
  \E b \in DeletionBatches :
     LET r == deleteObservations(graph, b)
     IN  /\ graph' = r.graph
         /\ last' = CallRecord("deleteObservations", b, r, graph)
         /\ UNCHANGED <<sessions, calls>>

DeleteRelations ==
  \E b \in RelationDeletionBatches :
     LET r == deleteRelations(graph, b)
     IN  /\ graph' = r.graph
         /\ last' = CallRecord("deleteRelations", b, r, graph)
         /\ UNCHANGED <<sessions, calls>>

NextStore ==
  \/ CreateEntities
  \/ CreateRelations
  \/ AddObservations
  \/ DeleteEntities
  \/ DeleteObservations
  \/ DeleteRelations

SpecStore == Init /\ [][NextStore]_vars

BuildContextEntities ==
  \E b \in EntityBatches :
     LET r == buildcontext(graph, "entities", b)
     IN  /\ Fits(graph, r.graph)
         /\ graph' = r.graph
         /\ last' = CallRecord("buildcontext", <<"entities", b>>, r, graph)
         /\ UNCHANGED <<sessions, calls>>

BuildContextRelations ==
  \E b \in RelationBatches :
     LET r == buildcontext(graph, "relations", b)
     IN  /\ Fits(graph, r.graph)
         /\ graph' = r.graph
         /\ last' = CallRecord("buildcontext", <<"relations", b>>, r, graph)
         /\ UNCHANGED <<sessions, calls>>

BuildContextObservations ==
  \E b \in ObservationBatches :
     LET r == buildcontext(graph, "observations", b)
     IN  /\ Fits(graph, r.graph)
         /\ graph' = r.graph
         /\ last' = CallRecord("buildcontext", <<"observations", b>>, r, graph)
         /\ UNCHANGED <<sessions, calls>>

\* the manager called directly and through the buildcontext tool
NextTool ==
  \/ CreateEntities
  \/ BuildContextEntities
  \/ BuildContextRelations
  \/ BuildContextObservations

SpecTool == Init /\ [][NextTool]_vars

CreateStatusEntities ==
  \E b \in StatusEntityBatches :
     LET r == createEntities(graph, b)
     IN  /\ Fits(graph, r.graph)
         /\ graph' = r.graph
         /\ last' = CallRecord("createEntities", b, r, graph)
         /\ UNCHANGED <<sessions, calls>>

InitializeStatusAndPriority ==
  LET r == initializeStatusAndPriority(graph)
  IN  /\ graph' = r.graph
      /\ last' = CallRecord("initializeStatusAndPriority", <<>>, r, graph)
      /\ UNCHANGED <<sessions, calls>>

\* entity creation and the start-up initialisation of the value entities
NextBoot ==
  \/ CreateEntities
  \/ CreateStatusEntities
  \/ InitializeStatusAndPriority

SpecBoot == Init /\ [][NextBoot]_vars

CreateStatusSubjects ==
  \E b \in StatusSubjectBatches :
     LET r == createEntities(graph, b)
     IN  /\ Fits(graph, r.graph)
         /\ graph' = r.graph
         /\ last' = CallRecord("createEntities", b, r, graph)
         /\ UNCHANGED <<sessions, calls>>

CreateStatusRelations ==
  \E b \in StatusRelationBatches :
     LET r == createRelations(graph, b)
     IN  /\ Fits(graph, r.graph)
         /\ graph' = r.graph
         /\ last' = CallRecord("createRelations", b, r, graph)
         /\ UNCHANGED <<sessions, calls>>

SetEntityStatus ==
  \E n \in Names, v \in StatusValueInputs :
     LET r == setEntityStatus(graph, n, v)
     IN  /\ Fits(graph, r.graph)
         /\ graph' = r.graph
         /\ last' = CallRecord("setEntityStatus", <<n, v>>, r, graph)
         /\ UNCHANGED <<sessions, calls>>

SetEntityPriority ==
  \E n \in Names, v \in PriorityValueInputs :
     LET r == setEntityPriority(graph, n, v)
     IN  /\ Fits(graph, r.graph)
         /\ graph' = r.graph
         /\ last' = CallRecord("setEntityPriority", <<n, v>>, r, graph)
         /\ UNCHANGED <<sessions, calls>>

\* the status and priority helpers next to the calls that store entities and
\* has_status / has_priority edges directly
NextStatus ==
  \/ CreateStatusSubjects
  \/ CreateStatusRelations
  \/ SetEntityStatus
  \/ SetEntityPriority

SpecStatus == Init /\ [][NextStatus]_vars

\* number of stage records in the session file
RECURSIVE TotalStages(_)
TotalStages(ss) ==
  IF DOMAIN ss = {} THEN 0
  ELSE LET id == CHOOSE x \in DOMAIN ss : TRUE
       IN  Len(ss[id]) + TotalStages([x \in DOMAIN ss \ {id} |-> ss[x]])

\* a call may grow the session file only up to max records
StagesFit(ss, tt, max) ==
  IF TotalStages(tt) <= max THEN TRUE ELSE TotalStages(tt) <= TotalStages(ss)

CreateProject ==
  \E e \in ProjectInputs :
     LET r == createEntities(graph, <<e>>)
     IN  /\ graph' = r.graph
         /\ last' = CallRecord("createEntities", <<e>>, r, graph)
         /\ UNCHANGED <<sessions, calls>>

CreateNamedProject ==
  \E e \in NamedProjectInputs :
     LET r == createEntities(graph, <<e>>)
     IN  /\ graph' = r.graph
         /\ last' = CallRecord("createEntities", <<e>>, r, graph)
         /\ UNCHANGED <<sessions, calls>>

CreateDataset ==
  \E e \in DatasetInputs :
     LET r == createEntities(graph, <<e>>)
     IN  /\ graph' = r.graph
         /\ last' = CallRecord("createEntities", <<e>>, r, graph)
         /\ UNCHANGED <<sessions, calls>>

StartSession ==
  \E now \in Timestamps, random \in RandomInputs :
     \E r \in {startsession(sessions, graph, now, random)} :
        /\ graph' = r.graph
        /\ sessions' = r.sessions
        /\ last' = CallRecord("startsession", <<>>, r, graph)
        /\ UNCHANGED calls

StageSummary ==
  \E id \in SessionIds, d \in SummaryData, ts \in Timestamps :
     LET params == Params(id, "summary", 1, d, TRUE)
     IN  \E r \in {endsession(sessions, graph, params, ts)} :
            /\ StagesFit(sessions, r.sessions, MaxStages)
            /\ graph' = r.graph
            /\ sessions' = r.sessions
            /\ last' = CallRecord("endsession", params, r, graph)
            /\ UNCHANGED calls

StageDatasetUpdates ==
  \E id \in SessionIds, d \in DatasetUpdatesData, ts \in Timestamps :
     LET params == Params(id, "datasetUpdates", 2, d, TRUE)
     IN  \E r \in {endsession(sessions, graph, params, ts)} :
            /\ StagesFit(sessions, r.sessions, MaxStages)
            /\ graph' = r.graph
            /\ sessions' = r.sessions
            /\ last' = CallRecord("endsession", params, r, graph)
            /\ UNCHANGED calls

StageNewAnalyses ==
  \E id \in SessionIds, d \in NewAnalysesData, ts \in Timestamps :
     LET params == Params(id, "newAnalyses", 3, d, TRUE)
     IN  \E r \in {endsession(sessions, graph, params, ts)} :
            /\ StagesFit(sessions, r.sessions, MaxStages)
            /\ graph' = r.graph
            /\ sessions' = r.sessions
            /\ last' = CallRecord("endsession", params, r, graph)
            /\ UNCHANGED calls

StageNewVisualizations ==
  \E id \in SessionIds, d \in NewVisualizationsData, ts \in Timestamps :
     LET params == Params(id, "newVisualizations", 4, d, TRUE)
     IN  \E r \in {endsession(sessions, graph, params, ts)} :
            /\ StagesFit(sessions, r.sessions, MaxStages)
            /\ graph' = r.graph
            /\ sessions' = r.sessions
            /\ last' = CallRecord("endsession", params, r, graph)
            /\ UNCHANGED calls

StageHypothesisResults ==
  \E id \in SessionIds, d \in HypothesisResultsData, ts \in Timestamps :
     LET params == Params(id, "hypothesisResults", 5, d, TRUE)
     IN  \E r \in {endsession(sessions, graph, params, ts)} :
            /\ StagesFit(sessions, r.sessions, MaxStages)
            /\ graph' = r.graph
            /\ sessions' = r.sessions
            /\ last' = CallRecord("endsession", params, r, graph)
            /\ UNCHANGED calls

StageProjectStatus ==
  \E id \in SessionIds, d \in ProjectStatusData, next \in BOOLEAN, ts \in Timestamps :
     LET params == Params(id, "projectStatus", 7, d, next)
     IN  \E r \in {endsession(sessions, graph, params, ts)} :
            /\ StagesFit(sessions, r.sessions, MaxStages)
            /\ graph' = r.graph
            /\ sessions' = r.sessions
            /\ last' = CallRecord("endsession", params, r, graph)
            /\ UNCHANGED calls

\* the assembly call supplies no stage data
StageAssembly ==
  \E id \in SessionIds, next \in BOOLEAN, ts \in Timestamps :
     LET params == Params(id, "assembly", 8, NoStageData, next)
     IN  \E r \in {endsession(sessions, graph, params, ts)} :
            /\ StagesFit(sessions, r.sessions, MaxStages + 1)
            /\ graph' = r.graph
            /\ sessions' = r.sessions
            /\ last' = CallRecord("endsession", params, r, graph)
            /\ UNCHANGED calls

\* a call with a stage name the switch does not know
StageUnknown ==
  \E id \in SessionIds, ts \in Timestamps :
     LET params == Params(id, "review", 1, NoStageData, TRUE)
     IN  \E r \in {endsession(sessions, graph, params, ts)} :
            /\ StagesFit(sessions, r.sessions, MaxStages)
            /\ graph' = r.graph
            /\ sessions' = r.sessions
            /\ last' = CallRecord("endsession", params, r, graph)
            /\ UNCHANGED calls

\* a summary call marked as the revision of a position of the stage list
ReviseStage ==
  \E id \in SessionIds, pos \in 1..MaxStages, ts \in Timestamps :
     LET params == [Params(id, "summary", 1, NoStageData, TRUE)
                      EXCEPT !.isRevision = TRUE, !.revisesStage = pos]
     IN  \E r \in {endsession(sessions, graph, params, ts)} :
            /\ StagesFit(sessions, r.sessions, MaxStages)
            /\ graph' = r.graph
            /\ sessions' = r.sessions
            /\ last' = CallRecord("endsession", params, r, graph)
            /\ UNCHANGED calls

\* the stage machine: sessions, stages in any order, revisions, the terminal
\* assembly call and its project status step
NextSession ==
  \/ CreateProject
  \/ CreateNamedProject
  \/ StartSession
  \/ StageSummary
  \/ StageProjectStatus
  \/ StageAssembly
  \/ StageUnknown
  \/ ReviseStage

SpecSession == Init /\ [][NextSession]_vars

\* the commit of staged dataset updates and analyses
NextCommit ==
  \/ CreateProject
  \/ StartSession
  \/ StageSummary
  \/ StageDatasetUpdates
  \/ StageNewAnalyses
  \/ StageAssembly

SpecCommit == Init /\ [][NextCommit]_vars

\* the commit of staged visualizations and hypothesis results
NextLinks ==
  \/ CreateProject
  \/ StartSession
  \/ StageSummary
  \/ StageNewVisualizations
  \/ StageHypothesisResults
  \/ StageAssembly

SpecLinks == Init /\ [][NextLinks]_vars

\* the commit of staged dataset updates over stored datasets
NextUpsert ==
  \/ CreateProject
  \/ CreateDataset
  \/ StartSession
  \/ StageSummary
  \/ StageDatasetUpdates
  \/ StageAssembly

SpecUpsert == Init /\ [][NextUpsert]_vars

\* the eight stage names and one the switch does not know
StageInputs == STAGES \cup {"review"}

\* the stage data of a call: the summary names project P, the project status
\* is "active", every other stage comes without data
StageDataInput(stage) ==
  CASE stage = "summary" -> [summary |-> "s", duration |-> "1h", project |-> "P"]
    [] stage = "projectStatus" -> [projectStatus |-> "active", projectObservation |-> ""]
    [] OTHER -> NoStageData

\* an endsession call of any stage name with nextStageNeeded true
EndSessionAny ==
  \E id \in SessionIds, stage \in StageInputs, ts \in Timestamps :
     LET params == Params(id, stage, 1, StageDataInput(stage), TRUE)
     IN  \E r \in {endsession(sessions, graph, params, ts)} :
            /\ StagesFit(sessions, r.sessions, MaxStages - 1)
            /\ graph' = r.graph
            /\ sessions' = r.sessions
            /\ last' = CallRecord("endsession", params, r, graph)
            /\ UNCHANGED calls

\* the terminal assembly call
EndSessionAssembly ==
  \E id \in SessionIds, ts \in Timestamps :
     LET params == Params(id, "assembly", 8, NoStageData, FALSE)
     IN  \E r \in {endsession(sessions, graph, params, ts)} :
            /\ StagesFit(sessions, r.sessions, MaxStages + 1)
            /\ graph' = r.graph
            /\ sessions' = r.sessions
            /\ last' = CallRecord("endsession", params, r, graph)
            /\ UNCHANGED calls

\* one session under endsession calls of every stage name in every order
NextStages ==
  \/ CreateNamedProject
  \/ StartSession
  \/ EndSessionAny
  \/ EndSessionAssembly

SpecStages == Init /\ [][NextStages]_vars

\* two draws, so that a second startsession may or may not repeat the first id
TableRandoms == {"k3x", "p9q"}

\* the session ids of the table, and one that no startsession returned
TableIds ==
  {generateSessionId(now, random) : now \in Timestamps, random \in TableRandoms}
    \cup {"quant_0_none"}

\* stage names of the calls on the table
TableStageInputs == {"summary", "projectStatus", "review"}

StartSessionAny ==
  \E now \in Timestamps, random \in TableRandoms :
     \E r \in {startsession(sessions, graph, now, random)} :
        /\ graph' = r.graph
        /\ sessions' = r.sessions
        /\ last' = CallRecord("startsession", <<>>, r, graph)
        /\ UNCHANGED calls

\* an endsession call on a session of the table or on an id that is not in it
TableStage ==
  \E id \in TableIds, stage \in TableStageInputs, ts \in Timestamps :
     LET params == Params(id, stage, 1, NoStageData, TRUE)
     IN  \E r \in {endsession(sessions, graph, params, ts)} :
            /\ StagesFit(sessions, r.sessions, MaxStages)
            /\ graph' = r.graph
            /\ sessions' = r.sessions
            /\ last' = CallRecord("endsession", params, r, graph)
            /\ UNCHANGED calls

\* a revision of the first position
TableRevision ==
  \E id \in TableIds, ts \in Timestamps :
     LET params == [Params(id, "summary", 1, NoStageData, TRUE)
                      EXCEPT !.isRevision = TRUE, !.revisesStage = 1]
     IN  \E r \in {endsession(sessions, graph, params, ts)} :
            /\ StagesFit(sessions, r.sessions, MaxStages)
            /\ graph' = r.graph
            /\ sessions' = r.sessions
            /\ last' = CallRecord("endsession", params, r, graph)
            /\ UNCHANGED calls

\* the terminal assembly call on the table
TableAssembly ==
  \E id \in TableIds, ts \in Timestamps :
     LET params == Params(id, "assembly", 8, NoStageData, FALSE)
     IN  \E r \in {endsession(sessions, graph, params, ts)} :
            /\ StagesFit(sessions, r.sessions, MaxStages)
            /\ graph' = r.graph
            /\ sessions' = r.sessions
            /\ last' = CallRecord("endsession", params, r, graph)
            /\ UNCHANGED calls

\* the session table under startsession and endsession calls on several ids
NextTable ==
  \/ StartSessionAny
  \/ TableStage
  \/ TableRevision
  \/ TableAssembly

SpecTable == Init /\ [][NextTable]_vars

\* the method is applied to the file as it is at the save
ManagerCallOnFile(call) ==
  IF call.op = "createEntities"
  THEN createEntities(graph, call.args)
  ELSE deleteEntities(graph, call.args)

\* the manager method of a call in progress, applied to the graph it loaded
ManagerCall(call) ==
  IF call.op = "createEntities"
  THEN createEntities(call.loaded, call.args)
  ELSE deleteEntities(call.loaded, call.args)

\* const graph = await this.loadGraph() of createEntities: the caller holds
\* the graph as the file had it at this moment
LoadForCreateEntities ==
  \E c \in Callers, e \in RaceEntityInputs :
     /\ calls[c].pc # "loaded"
     /\ calls' = [calls EXCEPT ![c] =
                    [pc |-> "loaded", op |-> "createEntities", args |-> <<e>>,
                     loaded |-> graph, missed |-> {}, ok |-> TRUE, ret |-> <<>>]]
     /\ UNCHANGED <<graph, last, sessions>>

\* const graph = await this.loadGraph() of deleteEntities
LoadForDeleteEntities ==
  \E c \in Callers, n \in {"A"} :
     /\ calls[c].pc # "loaded"
     /\ calls' = [calls EXCEPT ![c] =
                    [pc |-> "loaded", op |-> "deleteEntities", args |-> <<n>>,
                     loaded |-> graph, missed |-> {}, ok |-> TRUE, ret |-> <<>>]]
     /\ UNCHANGED <<graph, last, sessions>>

\* the rest of the method after the load: it throws, or it writes the graph
\* it computed from the loaded one over the file and returns. Each caller
\* still between load and save notes the save it has not seen.
SaveGraph ==
  \E c \in Callers :
     /\ calls[c].pc = "loaded"
     /\ \E r \in {ManagerCall(calls[c])} :
           /\ graph' = IF r.ok THEN r.graph ELSE graph
           /\ Fits(graph, graph')
           /\ last' = CallRecord(calls[c].op, calls[c].args, r, graph)
           /\ calls' =
                [d \in Callers |->
                   IF d = c
                   THEN [calls[c] EXCEPT !.pc = "done", !.ok = r.ok, !.ret = r.ret]
                   ELSE IF calls[d].pc = "loaded" /\ r.ok
                   THEN [calls[d] EXCEPT !.missed =
                           @ \cup {[op |-> calls[c].op, args |-> calls[c].args,
                                     ret |-> r.ret]}]
                   ELSE calls[d]]
     /\ UNCHANGED sessions

\* mutating calls of two callers, interleaved at their awaits
NextRace ==
  \/ LoadForCreateEntities
  \/ LoadForDeleteEntities
  \/ SaveGraph

SpecRace == Init /\ [][NextRace]_vars

\* ---- searchNodes over a small library of research entities ----

SearchEntityBatches ==
  { <<Entity("Age_Income_Regression", "statisticalTest", <<"tests income vs age">>)>>,
    <<Entity("Income", "variable", <<>>), Entity("Age", "variable", <<"years">>)>>,
    <<Entity("Income", "variable", <<>>),
      Entity("Income", "dataset", <<"regression data">>)>> }

SearchRelationBatches ==
  { <<Relation("Age_Income_Regression", "Income", "analyzes")>>,
    <<Relation("Age", "Income", "precedes")>> }

Queries == {"income regression", "Income", "AGE  income", "variable", "nothing"}

SearchCreateEntities ==
  \E b \in SearchEntityBatches :
     \E r \in {createEntities(graph, b)} :
        /\ graph' = r.graph
        /\ last' = CallRecord("createEntities", b, r, graph)
        /\ UNCHANGED <<sessions, calls>>

SearchCreateRelations ==
  \E b \in SearchRelationBatches :
     \E r \in {createRelations(graph, b)} :
        /\ graph' = r.graph
        /\ last' = CallRecord("createRelations", b, r, graph)
        /\ UNCHANGED <<sessions, calls>>

SearchNodes ==
  \E query \in Queries :
     \E r \in {Returned(graph, searchNodes(graph, query))} :
        /\ graph' = r.graph
        /\ last' = CallRecord("searchNodes", query, r, graph)
        /\ UNCHANGED <<sessions, calls>>

NextSearch ==
  \/ SearchCreateEntities
  \/ SearchCreateRelations
  \/ SearchNodes

SpecSearch == Init /\ [][NextSearch]_vars

\* ---- the read methods over a small research graph ----

ReadEntityBatches ==
  { <<Entity("P", "project", <<"design: survey">>),
      Entity("D", "dataset", <<"Size: 120">>),
      Entity("V", "variable", <<"Role: predictor">>)>>,
    <<Entity("T", "statisticalTest", <<"Type: t-test">>),
      Entity("M", "model", <<"accuracy 0.9">>),
      Entity("Q", "researchQuestion", <<>>)>> }

ReadRelationBatches ==
  { <<Relation("D", "V", "contains"), Relation("T", "D", "analyzes")>> }

ReadCreateEntities ==
  \E b \in ReadEntityBatches :
     \E r \in {createEntities(graph, b)} :
        /\ graph' = r.graph
        /\ last' = CallRecord("createEntities", b, r, graph)
        /\ UNCHANGED <<sessions, calls>>

ReadCreateRelations ==
  \E b \in ReadRelationBatches :
     \E r \in {createRelations(graph, b)} :
        /\ graph' = r.graph
        /\ last' = CallRecord("createRelations", b, r, graph)
        /\ UNCHANGED <<sessions, calls>>

ReadSetEntityStatus ==
  \E r \in {setEntityStatus(graph, "P", "active")} :
     /\ graph' = r.graph
     /\ last' = CallRecord("setEntityStatus", <<"P", "active">>, r, graph)
     /\ UNCHANGED <<sessions, calls>>

ReadSetEntityPriority ==
  \E r \in {setEntityPriority(graph, "P", "high")} :
     /\ graph' = r.graph
     /\ last' = CallRecord("setEntityPriority", <<"P", "high">>, r, graph)
     /\ UNCHANGED <<sessions, calls>>

ReadStartSession ==
  \E now \in Timestamps, random \in RandomInputs :
     \E r \in {startsession(sessions, graph, now, random)} :
        /\ graph' = r.graph
        /\ sessions' = r.sessions
        /\ last' = CallRecord("startsession", <<>>, r, graph)
        /\ UNCHANGED calls

ReadGraph ==
  \E r \in {readGraph(graph)} :
     /\ graph' = r.graph
     /\ last' = CallRecord("readGraph", <<>>, r, graph)
     /\ UNCHANGED <<sessions, calls>>

ReadSearchNodes ==
  \E query \in {"p", "predictor t-test"} :
     \E r \in {Returned(graph, searchNodes(graph, query))} :
        /\ graph' = r.graph
        /\ last' = CallRecord("searchNodes", query, r, graph)
        /\ UNCHANGED <<sessions, calls>>

OpenNodes ==
  \E names \in {<<"D", "V">>, <<"Ghost">>} :
     \E r \in {openNodes(graph, names)} :
        /\ graph' = r.graph
        /\ last' = CallRecord("openNodes", names, r, graph)
        /\ UNCHANGED <<sessions, calls>>

GetProjectOverview ==
  \E projectName \in {"P", "D"} :
     \E r \in {getProjectOverview(graph, projectName)} :
        /\ graph' = r.graph
        /\ last' = CallRecord("getProjectOverview", projectName, r, graph)
        /\ UNCHANGED <<sessions, calls>>

GetDatasetAnalysis ==
  \E datasetName \in {"D", "Ghost"} :
     \E r \in {getDatasetAnalysis(graph, datasetName)} :
        /\ graph' = r.graph
        /\ last' = CallRecord("getDatasetAnalysis", datasetName, r, graph)
        /\ UNCHANGED <<sessions, calls>>

GetHypothesisTests ==
  \E projectName \in {"P"}, hypothesisName \in {"", "Ghost"} :
     \E r \in {getHypothesisTests(graph, projectName, hypothesisName)} :
        /\ graph' = r.graph
        /\ last' = CallRecord("getHypothesisTests", <<projectName, hypothesisName>>, r, graph)
        /\ UNCHANGED <<sessions, calls>>

GetVariableRelationships ==
  \E variableName \in {"V", "D"} :
     \E r \in {getVariableRelationships(graph, variableName)} :
        /\ graph' = r.graph
        /\ last' = CallRecord("getVariableRelationships", variableName, r, graph)
        /\ UNCHANGED <<sessions, calls>>

GetStatisticalResults ==
  \E projectName \in {"P"}, testType \in {"", "t-test"} :
     \E r \in {getStatisticalResults(graph, projectName, testType)} :
        /\ graph' = r.graph
        /\ last' = CallRecord("getStatisticalResults", <<projectName, testType>>, r, graph)
        /\ UNCHANGED <<sessions, calls>>

GetVisualizationGallery ==
  \E projectName \in {"P"}, datasetName \in {"", "D"} :
     \E r \in {getVisualizationGallery(graph, projectName, datasetName)} :
        /\ graph' = r.graph
        /\ last' = CallRecord("getVisualizationGallery", <<projectName, datasetName>>, r, graph)
        /\ UNCHANGED <<sessions, calls>>

GetModelPerformance ==
  \E modelName \in {"M", "T"} :
     \E r \in {getModelPerformance(graph, modelName)} :
        /\ graph' = r.graph
        /\ last' = CallRecord("getModelPerformance", modelName, r, graph)
        /\ UNCHANGED <<sessions, calls>>

GetResearchQuestionResults ==
  \E questionName \in {"Q", "Ghost"} :
     \E r \in {getResearchQuestionResults(graph, questionName)} :
        /\ graph' = r.graph
        /\ last' = CallRecord("getResearchQuestionResults", questionName, r, graph)
        /\ UNCHANGED <<sessions, calls>>

GetVariableDistribution ==
  \E variableName \in {"V"}, datasetName \in {"", "D", "Ghost"} :
     \E r \in {getVariableDistribution(graph, variableName, datasetName)} :
        /\ graph' = r.graph
        /\ last' = CallRecord("getVariableDistribution", <<variableName, datasetName>>, r, graph)
        /\ UNCHANGED <<sessions, calls>>

GetEntityStatus ==
  \E entityName \in {"P", "Ghost"} :
     \E r \in {getEntityStatus(graph, entityName)} :
        /\ graph' = r.graph
        /\ last' = CallRecord("getEntityStatus", entityName, r, graph)
        /\ UNCHANGED <<sessions, calls>>

GetEntityPriority ==
  \E entityName \in {"P", "Ghost"} :
     \E r \in {getEntityPriority(graph, entityName)} :
        /\ graph' = r.graph
        /\ last' = CallRecord("getEntityPriority", entityName, r, graph)
        /\ UNCHANGED <<sessions, calls>>

NextReads ==
  \/ ReadCreateEntities
  \/ ReadCreateRelations
  \/ ReadSetEntityStatus
  \/ ReadSetEntityPriority
  \/ ReadStartSession
  \/ ReadGraph
  \/ ReadSearchNodes
  \/ OpenNodes
  \/ GetProjectOverview
  \/ GetDatasetAnalysis
  \/ GetHypothesisTests
  \/ GetVariableRelationships
  \/ GetStatisticalResults
  \/ GetVisualizationGallery
  \/ GetModelPerformance
  \/ GetResearchQuestionResults
  \/ GetVariableDistribution
  \/ GetEntityStatus
  \/ GetEntityPriority

SpecReads == Init /\ [][NextReads]_vars

\* ---- the project views of the TypeScript source build ----

\* the observations the variable V may be created with
VariableObservations ==
  { <<"independent variable">>, <<"outcome measure">>, <<"age in years">>,
    <<"predictor", "control for income">> }

ViewEntityBatches ==
  { <<Entity("Proj", "project", <<>>),
      Entity("D", "dataset", <<>>),
      Entity("D2", "dataset", <<>>)>>,
    <<Entity("T", "statisticalTest", <<"Type: regression">>)>> }
  \cup { <<Entity("V", "variable", o)>> : o \in VariableObservations }

\* two batches of distinct relations, and two batches that list one relation
\* twice
ViewRelationBatches ==
  { <<Relation("D", "Proj", "part_of"), Relation("D2", "Proj", "part_of"),
      Relation("D", "V", "contains")>>,
    <<Relation("T", "Proj", "part_of"), Relation("T", "D", "analyzes"),
      Relation("T", "D2", "analyzes")>>,
    <<Relation("D", "V", "contains"), Relation("D", "V", "contains")>>,
    <<Relation("T", "Proj", "part_of"), Relation("T", "Proj", "part_of")>> }

ViewCreateEntities ==
  \E b \in ViewEntityBatches :
     \E r \in {createEntitiesTS(graph, b)} :
        /\ graph' = r.graph
        /\ last' = CallRecord("createEntities", b, r, graph)
        /\ UNCHANGED <<sessions, calls>>

ViewCreateRelations ==
  \E b \in ViewRelationBatches :
     \E r \in {createRelationsTS(graph, b)} :
        /\ graph' = r.graph
        /\ last' = CallRecord("createRelations", b, r, graph)
        /\ UNCHANGED <<sessions, calls>>

ViewProjectOverview ==
  \E projectName \in {"Proj", "D"} :
     \E r \in {getProjectOverview(graph, projectName)} :
        /\ graph' = r.graph
        /\ last' = CallRecord("getProjectOverview", projectName, r, graph)
        /\ UNCHANGED <<sessions, calls>>

ViewDatasetAnalysis ==
  \E datasetName \in {"D", "Proj"} :
     \E r \in {getDatasetAnalysis(graph, datasetName)} :
        /\ graph' = r.graph
        /\ last' = CallRecord("getDatasetAnalysis", datasetName, r, graph)
        /\ UNCHANGED <<sessions, calls>>

ViewStatisticalResults ==
  \E projectName \in {"Proj"}, testType \in {"", "Regression"} :
     \E r \in {getStatisticalResults(graph, projectName, testType)} :
        /\ graph' = r.graph
        /\ last' = CallRecord("getStatisticalResults", <<projectName, testType>>, r, graph)
        /\ UNCHANGED <<sessions, calls>>

NextViews ==
  \/ ViewCreateEntities
  \/ ViewCreateRelations
  \/ ViewProjectOverview
  \/ ViewDatasetAnalysis
  \/ ViewStatisticalResults

SpecViews == Init /\ [][NextViews]_vars

\* ---- createRelations over entity names that contain ':' ----

KeyEntityBatches ==
  { <<Entity("x", "project", <<>>), Entity("status:active", "status", <<>>)>>,
    <<Entity("x:status", "dataset", <<>>), Entity("active", "variable", <<>>)>> }

KeyRelationInputs ==
  { Relation("x", "status:active", "has_status"),
    Relation("x:status", "active", "has_status"),
    Relation("x", "active", "cites") }

KeyRelationBatches ==
  {<<r>> : r \in KeyRelationInputs}
    \cup { <<Relation("x", "active", "cites"), Relation("x", "status:active", "has_status")>> }

KeyCreateEntities ==
  \E b \in KeyEntityBatches :
     \E r \in {createEntities(graph, b)} :
        /\ graph' = r.graph
        /\ last' = CallRecord("createEntities", b, r, graph)
        /\ UNCHANGED <<sessions, calls>>

KeyCreateRelations ==
  \E b \in KeyRelationBatches :
     \E r \in {createRelations(graph, b)} :
        /\ graph' = r.graph
        /\ last' = CallRecord("createRelations", b, r, graph)
        /\ UNCHANGED <<sessions, calls>>

KeyDeleteRelations ==
  \E b \in {<<r>> : r \in KeyRelationInputs} :
     \E r \in {deleteRelations(graph, b)} :
        /\ graph' = r.graph
        /\ last' = CallRecord("deleteRelations", b, r, graph)
        /\ UNCHANGED <<sessions, calls>>

NextKeys ==
  \/ KeyCreateEntities
  \/ KeyCreateRelations
  \/ KeyDeleteRelations

SpecKeys == Init /\ [][NextKeys]_vars

\* ---- the status helpers of the started server ----

\* main() has run initializeStatusAndPriority before any tool is served
Started == last.op # "none"

IntegrityCreateEntities ==
  \E b \in {<<Entity("A", "project", <<>>)>>, <<Entity("B", "dataset", <<>>)>>} :
     \E r \in {createEntities(graph, b)} :
        /\ Started
        /\ graph' = r.graph
        /\ last' = CallRecord("createEntities", b, r, graph)
        /\ UNCHANGED <<sessions, calls>>

IntegrityCreateRelations ==
  \E b \in {<<Relation("A", "B", "has_status")>>,
            <<Relation("A", "status:active", "has_status")>>} :
     \E r \in {createRelations(graph, b)} :
        /\ Started
        /\ graph' = r.graph
        /\ last' = CallRecord("createRelations", b, r, graph)
        /\ UNCHANGED <<sessions, calls>>

IntegrityDeleteEntities ==
  \E b \in {<<"A">>, <<"status:active">>} :
     \E r \in {deleteEntities(graph, b)} :
        /\ Started
        /\ graph' = r.graph
        /\ last' = CallRecord("deleteEntities", b, r, graph)
        /\ UNCHANGED <<sessions, calls>>

IntegritySetEntityStatus ==
  \E n \in {"A", "Ghost"}, v \in {"active", "completed"} :
     \E r \in {setEntityStatus(graph, n, v)} :
        /\ Started
        /\ graph' = r.graph
        /\ last' = CallRecord("setEntityStatus", <<n, v>>, r, graph)
        /\ UNCHANGED <<sessions, calls>>

IntegritySetEntityPriority ==
  \E n \in {"A"}, v \in {"high"} :
     \E r \in {setEntityPriority(graph, n, v)} :
        /\ Started
        /\ graph' = r.graph
        /\ last' = CallRecord("setEntityPriority", <<n, v>>, r, graph)
        /\ UNCHANGED <<sessions, calls>>

IntegrityGetEntityStatus ==
  \E n \in {"A", "Ghost"} :
     \E r \in {getEntityStatus(graph, n)} :
        /\ Started
        /\ graph' = r.graph
        /\ last' = CallRecord("getEntityStatus", n, r, graph)
        /\ UNCHANGED <<sessions, calls>>

NextIntegrity ==
  \/ InitializeStatusAndPriority
  \/ IntegrityCreateEntities
  \/ IntegrityCreateRelations
  \/ IntegrityDeleteEntities
  \/ IntegritySetEntityStatus
  \/ IntegritySetEntityPriority
  \/ IntegrityGetEntityStatus

SpecIntegrity == Init /\ [][NextIntegrity]_vars

\* ---- the commit over stored hypotheses and models that have relations ----

ModelUpdatesData ==
  { [models |-> << [name |-> "M", type |-> "", metrics |-> "", notes |-> "",
                    datasetName |-> ""] >>] }

\* a hypothesis and a model that carry the text that the name search of the
\* commit looks for
ReplaceEntityInputs ==
  { Entity("H", "hypothesis", <<"name:H">>),
    Entity("M", "model", <<"name:M">>) }

ReplaceRelationInputs ==
  { Relation("H", "M", "based_on"),
    Relation("M", "H", "supports") }

StageModelUpdates ==
  \E id \in SessionIds, d \in ModelUpdatesData, ts \in Timestamps :
     LET params == Params(id, "modelUpdates", 6, d, TRUE)
     IN  \E r \in {endsession(sessions, graph, params, ts)} :
            /\ StagesFit(sessions, r.sessions, MaxStages)
            /\ graph' = r.graph
            /\ sessions' = r.sessions
            /\ last' = CallRecord("endsession", params, r, graph)
            /\ UNCHANGED calls

ReplaceCreateEntities ==
  \E e \in ReplaceEntityInputs :
     \E r \in {createEntities(graph, <<e>>)} :
        /\ graph' = r.graph
        /\ last' = CallRecord("createEntities", <<e>>, r, graph)
        /\ UNCHANGED <<sessions, calls>>

ReplaceCreateRelations ==
  \E x \in ReplaceRelationInputs :
     \E r \in {createRelations(graph, <<x>>)} :
        /\ graph' = r.graph
        /\ last' = CallRecord("createRelations", <<x>>, r, graph)
        /\ UNCHANGED <<sessions, calls>>

NextReplace ==
  \/ ReplaceCreateEntities
  \/ ReplaceCreateRelations
  \/ StartSession
  \/ StageHypothesisResults
  \/ StageModelUpdates
  \/ StageAssembly

SpecReplace == Init /\ [][NextReplace]_vars

\* ---- a research question, and the relations its view looks for ----

AnswerEntityBatches ==
  { <<Entity("Q", "researchQuestion", <<>>), Entity("H", "hypothesis", <<"Status: open">>)>>,
    <<Entity("R", "result", <<>>), Entity("F", "finding", <<>>)>> }

\* the relations that getResearchQuestionResults reads, alone and behind a
\* relation of a valid type, and relations of valid types between the same
\* entities
AnswerRelationBatches ==
  { <<Relation("Q", "H", "related_to")>>,
    <<Relation("R", "Q", "answers")>>,
    <<Relation("F", "Q", "answers")>>,
    <<Relation("R", "Q", "addresses"), Relation("F", "Q", "answers")>>,
    <<Relation("R", "Q", "addresses")>>,
    <<Relation("H", "Q", "supports")>> }

AnswerCreateEntities ==
  \E b \in AnswerEntityBatches :
     \E r \in {createEntities(graph, b)} :
        /\ graph' = r.graph
        /\ last' = CallRecord("createEntities", b, r, graph)
        /\ UNCHANGED <<sessions, calls>>

AnswerCreateRelations ==
  \E b \in AnswerRelationBatches :
     \E r \in {createRelations(graph, b)} :
        /\ graph' = r.graph
        /\ last' = CallRecord("createRelations", b, r, graph)
        /\ UNCHANGED <<sessions, calls>>

\* the same call served by the build of src/index.ts
AnswerCreateRelationsTS ==
  \E b \in AnswerRelationBatches :
     \E r \in {createRelationsTS(graph, b)} :
        /\ graph' = r.graph
        /\ last' = CallRecord("createRelations", b, r, graph)
        /\ UNCHANGED <<sessions, calls>>

AnswerGetResearchQuestionResults ==
  \E questionName \in {"Q", "Ghost"} :
     \E r \in {getResearchQuestionResults(graph, questionName)} :
        /\ graph' = r.graph
        /\ last' = CallRecord("getResearchQuestionResults", questionName, r, graph)
        /\ UNCHANGED <<sessions, calls>>

NextAnswers ==
  \/ AnswerCreateEntities
  \/ AnswerCreateRelations
  \/ AnswerCreateRelationsTS
  \/ AnswerGetResearchQuestionResults

SpecAnswers == Init /\ [][NextAnswers]_vars

(* ---------------- properties of the graph store ---------------- *)

\* positions of a relation batch with an endpoint that names no entity of g
MissingEndpoints(g, rs) ==
  {i \in DOMAIN rs : rs[i].from \notin EntityNames(g) \/ rs[i].to \notin EntityNames(g)}

HasInvalidType(es) == \E i \in DOMAIN es : ~validateEntityType(es[i].entityType)

\* C1: in every state reached from the empty graph through the six store
\* operations, every stored relation's from and to name stored entities.
C1_NoDanglingRelation ==
  \A r \in Range(graph.relations) :
     r.from \in EntityNames(graph) /\ r.to \in EntityNames(graph)

\* a deleteEntities call removed an entity together with a relation of it,
\* and the entity at the relation's other end is still stored
C1_Witness ==
  /\ last.op = "deleteEntities"
  /\ last.before[1] > Len(graph.entities)
  /\ last.before[2] > Len(graph.relations)
  /\ graph.entities # <<>>

\* C2: no two stored entities have the same name.
C2_UniqueEntityNames ==
  \A i, j \in DOMAIN graph.entities :
     graph.entities[i].name = graph.entities[j].name => i = j

\* C3: no two stored relations have the same (from, to, relationType) triple.
C3_UniqueTriples ==
  \A i, j \in DOMAIN graph.relations :
     graph.relations[i] = graph.relations[j] => i = j

\* C4 as stated: a createRelations batch with a missing endpoint fails with
\* the entity-not-found error and leaves the stored graph unchanged.
C4_MissingEndpointIsEntityNotFound ==
  [][ (last'.op = "createRelations" /\ MissingEndpoints(graph, last'.args) # {})
      => /\ ~last'.ok
         /\ last'.err[1] = "EntityNotFound"
         /\ graph' = graph ]_vars

\* C4 amended: such a batch fails and leaves the stored graph unchanged; the
\* error is entity-not-found, naming the first missing endpoint, unless a
\* relation earlier in the batch has an invalid relationType, and then it is
\* the invalid-type error.
C4_MissingEndpointFails ==
  [][ (last'.op = "createRelations" /\ MissingEndpoints(graph, last'.args) # {})
      => LET rs == last'.args
             first == MinOf(MissingEndpoints(graph, rs))
             badTypeEarlier ==
               \E j \in 1..(first - 1) : ~validateRelationType(rs[j].relationType)
         IN  /\ ~last'.ok
             /\ graph' = graph
             /\ IF badTypeEarlier
                THEN last'.err[1] = "InvalidType"
                ELSE last'.err =
                       <<"EntityNotFound",
                         IF rs[first].from \notin EntityNames(graph)
                         THEN rs[first].from ELSE rs[first].to>> ]_vars

\* a batch failed with entity-not-found although another relation of it was
\* valid and not yet stored, and relations were stored before the call
C4_Witness ==
  /\ last.op = "createRelations"
  /\ ~last.ok
  /\ last.err[1] = "EntityNotFound"
  /\ graph.relations # <<>>
  /\ \E i \in DOMAIN last.args :
        /\ i \notin MissingEndpoints(graph, last.args)
        /\ validateRelationType(last.args[i].relationType)
        /\ last.args[i] \notin Range(graph.relations)

\* C5: a create call carrying an entityType outside the closed set fails as
\* a whole: createEntities throws the invalid-type error, buildcontext
\* returns success = false, and the stored graph is left as it was.
C5_InvalidTypeFailsWhole ==
  [][ /\ (last'.op = "createEntities" /\ HasInvalidType(last'.args))
         => /\ ~last'.ok
            /\ last'.err[1] = "InvalidType"
            /\ graph' = graph
      /\ (last'.op = "buildcontext" /\ last'.args[1] = "entities"
            /\ HasInvalidType(last'.args[2]))
         => /\ last'.ok
            /\ last'.ret.success = FALSE
            /\ last'.ret.value[1] = "InvalidType"
            /\ graph' = graph ]_vars

\* buildcontext refused a batch holding an invalid type although another
\* entity of the batch was valid and new
C5_Witness ==
  /\ last.op = "buildcontext"
  /\ last.args[1] = "entities"
  /\ last.ret.success = FALSE
  /\ graph.entities # <<>>
  /\ \E i \in DOMAIN last.args[2] :
        /\ validateEntityType(last.args[2][i].entityType)
        /\ last.args[2][i].name \notin EntityNames(graph)

\* the observations stored for name n (of the first entity of that name)
ObservationsOf(g, n) == g.entities[FindEntity(g.entities, n)].observations

\* C6: an addObservations batch naming an entity that is not stored fails
\* with entity-not-found for the first such name, and the stored graph is
\* unchanged, the observations of earlier, valid entries included.
C6_AddObservationsAllOrNothing ==
  [][ (last'.op = "addObservations"
         /\ \E i \in DOMAIN last'.args :
               last'.args[i].entityName \notin EntityNames(graph))
      => LET obs == last'.args
             first == MinOf({i \in DOMAIN obs :
                               obs[i].entityName \notin EntityNames(graph)})
         IN  /\ ~last'.ok
             /\ last'.err = <<"EntityNotFound", obs[first].entityName>>
             /\ graph' = graph ]_vars

\* a batch failed whose first entry named a stored entity and carried a
\* string that entity does not hold
C6_Witness ==
  /\ last.op = "addObservations"
  /\ ~last.ok
  /\ Len(last.args) >= 2
  /\ last.args[1].entityName \in EntityNames(graph)
  /\ \E o \in Range(last.args[1].contents) :
        o \notin Range(ObservationsOf(graph, last.args[1].entityName))

\* C7: deleteEntities(names) removes exactly the entities named and the
\* relations that touch a name, keeps every other entity and relation as it
\* was and in order, and changes nothing when no name is stored.
C7_DeleteEntitiesFrame ==
  [][ last'.op = "deleteEntities"
      => LET N == Range(last'.args)
             keptE == {i \in DOMAIN graph.entities : graph.entities[i].name \notin N}
             keptR == {i \in DOMAIN graph.relations :
                         /\ graph.relations[i].from \notin N
                         /\ graph.relations[i].to \notin N}
         IN  /\ last'.ok
             /\ Len(graph'.entities) = Cardinality(keptE)
             /\ Len(graph'.relations) = Cardinality(keptR)
             /\ \A i \in keptE :
                   graph'.entities[Cardinality({k \in keptE : k <= i})]
                     = graph.entities[i]
             /\ \A i \in keptR :
                   graph'.relations[Cardinality({k \in keptR : k <= i})]
                     = graph.relations[i]
             /\ (N \cap EntityNames(graph) = {} => graph' = graph) ]_vars

\* a deleteEntities call removed an entity and a relation and left another
\* entity stored
C7_Witness ==
  /\ last.op = "deleteEntities"
  /\ Len(last.args) = 1
  /\ last.before[1] = Len(graph.entities) + 1
  /\ last.before[2] > Len(graph.relations)
  /\ Len(graph.entities) = 1

AllNamesStored(g, es) == \A i \in DOMAIN es : es[i].name \in EntityNames(g)

\* C8 as stated: createEntities with entities whose names are all stored
\* returns an empty list and leaves the stored graph identical, whatever the
\* supplied entityType or observations.
C8_ExistingNamesReturnEmpty ==
  [][ (last'.op = "createEntities" /\ AllNamesStored(graph, last'.args))
      => /\ last'.ok
         /\ last'.ret = <<>>
         /\ graph' = graph ]_vars

\* C8 amended: such a call leaves the stored graph identical; it returns an
\* empty list when every supplied entityType is in the closed set, and fails
\* with the invalid-type error otherwise.
C8_ExistingNamesIdempotent ==
  [][ (last'.op = "createEntities" /\ AllNamesStored(graph, last'.args))
      => /\ graph' = graph
         /\ IF HasInvalidType(last'.args)
            THEN ~last'.ok /\ last'.err[1] = "InvalidType"
            ELSE last'.ok /\ last'.ret = <<>> ]_vars

\* a call returned nothing for a stored name although the supplied entity
\* has another (valid) type and other observations than the stored one
C8_Witness ==
  /\ last.op = "createEntities"
  /\ last.ok
  /\ last.ret = <<>>
  /\ last.before = Sizes(graph)
  /\ \E i \in DOMAIN last.args :
        LET e == last.args[i]
            stored == graph.entities[FindEntity(graph.entities, e.name)]
        IN  /\ e.entityType # stored.entityType
            /\ e.observations # stored.observations

\* C9: a createRelations call that returns its single valid relation as
\* created leaves it stored exactly once, and the same call made next returns
\* an empty list and leaves the stored graph unchanged.
C9_CreateRelationsTwice ==
  [][ /\ (last'.op = "createRelations" /\ Len(last'.args) = 1
            /\ last'.ok /\ last'.ret = last'.args)
         => Count(graph'.relations, last'.args[1]) = 1
      /\ (last.op = "createRelations" /\ Len(last.args) = 1
            /\ last.ok /\ last.ret = last.args
            /\ last'.op = "createRelations" /\ last'.args = last.args)
         => /\ last'.ok
            /\ last'.ret = <<>>
            /\ graph' = graph
            /\ Count(graph'.relations, last'.args[1]) = 1 ]_vars

\* a call with one valid relation returned an empty list, the relation
\* being stored once
C9_Witness ==
  /\ last.op = "createRelations"
  /\ Len(last.args) = 1
  /\ last.ok
  /\ last.ret = <<>>
  /\ Count(graph.relations, last.args[1]) = 1

\* C10: addObservations with one entry appends only strings the entity does
\* not hold: a string absent before occurs exactly once afterwards, a string
\* present before is not appended again, and addedObservations is exactly
\* what was appended.
C10_AppendsOnlyAbsentStrings ==
  [][ (last'.op = "addObservations" /\ Len(last'.args) = 1 /\ last'.ok)
      => LET n == last'.args[1].entityName
             contents == last'.args[1].contents
             old == ObservationsOf(graph, n)
             new == ObservationsOf(graph', n)
         IN  /\ Len(new) >= Len(old)
             /\ SubSeq(new, 1, Len(old)) = old
             /\ last'.ret[1].addedObservations = SubSeq(new, Len(old) + 1, Len(new))
             /\ \A o \in Range(contents) :
                   IF o \in Range(old)
                   THEN Count(new, o) = Count(old, o)
                   ELSE Count(new, o) = 1 ]_vars

(* ---------------- properties of the status and priority helpers ---------------- *)

\* C11: after a successful setEntityStatus(n, v) exactly one has_status
\* relation from n is stored and it points to status:v, whatever has_status
\* relations from n were stored before; after a successful
\* setEntityPriority(n, v) exactly one has_priority relation from n is stored
\* and it points to priority:v.
C11_StatusSingularity ==
  /\ (last.op = "setEntityStatus" /\ last.ok) =>
        EdgesFrom(graph, last.args[1], "has_status") =
          <<Relation(last.args[1], "status:" \o last.args[2], "has_status")>>
  /\ (last.op = "setEntityPriority" /\ last.ok) =>
        EdgesFrom(graph, last.args[1], "has_priority") =
          <<Relation(last.args[1], "priority:" \o last.args[2], "has_priority")>>

\* a successful setEntityStatus that started from several has_status edges of
\* its entity: it stored one edge and the relation list got shorter
C11_Witness ==
  /\ last.op = "setEntityStatus"
  /\ last.ok
  /\ last.before[2] > Len(graph.relations)
  /\ Len(EdgesFrom(graph, last.args[1], "has_status")) = 1

\* C12: setEntityStatus with a value outside the valid status values, and
\* setEntityPriority with a value outside the valid priority values, fails
\* with an invalid-value error and leaves the stored graph as it was.
C12_InvalidValueKeepsGraph ==
  [][ /\ (last'.op = "setEntityStatus"
            /\ last'.args[2] \notin Range(VALID_STATUS_VALUES)) =>
           (~last'.ok /\ last'.err = <<"InvalidValue", last'.args[2]>> /\ graph' = graph)
      /\ (last'.op = "setEntityPriority"
            /\ last'.args[2] \notin Range(VALID_PRIORITY_VALUES)) =>
           (~last'.ok /\ last'.err = <<"InvalidValue", last'.args[2]>> /\ graph' = graph)
    ]_vars

\* a setEntityStatus call refused for its value while its entity has a
\* has_status edge
C12_Witness ==
  /\ last.op = "setEntityStatus"
  /\ ~last.ok
  /\ last.err = <<"InvalidValue", "in_progress">>
  /\ EdgesFrom(graph, last.args[1], "has_status") # <<>>

\* names of the stored entities, in stored order
NameList(g) == [i \in DOMAIN g.entities |-> g.entities[i].name]

\* C13: after initializeStatusAndPriority there is exactly one stored entity
\* named status:<v> for each valid status value and exactly one named
\* priority:<v> for each valid priority value, and a second call leaves the
\* stored graph unchanged.
C13_OneEntityPerValue ==
  last.op = "initializeStatusAndPriority" =>
    /\ \A v \in Range(VALID_STATUS_VALUES) : Count(NameList(graph), "status:" \o v) = 1
    /\ \A v \in Range(VALID_PRIORITY_VALUES) : Count(NameList(graph), "priority:" \o v) = 1
    /\ initializeStatusAndPriority(graph).graph = graph

(* ---------------- properties of the session stage machine ---------------- *)

\* the arguments that the terminal assembly call of the step assembles: the
\* staged data of its session as stored before the call
StagedArgs == assembleEndSessionArgs(sessions[last'.args.sessionId])

\* the step is an endsession call that runs the commit
CommitCall ==
  /\ last'.op = "endsession"
  /\ last'.args.sessionId \in DOMAIN sessions
  /\ last'.args.stage = "assembly"
  /\ ~last'.args.nextStageNeeded

\* C14: startsession, and every endsession call other than one with stage
\* 'assembly' and nextStageNeeded = false, leaves the stored graph unchanged.
C14_GraphUntouchedBeforeTerminalStage ==
  [][ /\ last'.op = "startsession" => graph' = graph
      /\ (last'.op = "endsession"
            /\ ~(last'.args.stage = "assembly" /\ ~last'.args.nextStageNeeded)) =>
           graph' = graph
    ]_vars

\* an assembly call with nextStageNeeded = true was recorded for a session
\* whose staged data the commit would have written to the graph
C14_Witness ==
  /\ last.op = "endsession"
  /\ last.args.stage = "assembly"
  /\ last.args.nextStageNeeded
  /\ last.ret.kind = "stage"
  /\ commit(graph, last.ret.value.stageData, "1700").graph # graph

\* C15: when the summary stage of a started session names a stored project P
\* and its projectStatus stage carries a status value, the terminal assembly
\* call leaves a has_status relation from P to the entity of that value.
C15_CommitSetsProjectStatus ==
  [][ (/\ CommitCall
       /\ StagedArgs.project \in EntityNames(graph)
       /\ StagedArgs.projectStatus # "") =>
        Relation(StagedArgs.project, "status:" \o StagedArgs.projectStatus, "has_status")
          \in Range(graph'.relations)
    ]_vars

(* ---------------- properties of the commit ---------------- *)

\* the name the commit gives to entry i of the staged analyses
AnalysisName(newAnalyses, i, timestamp) ==
  OrElse(newAnalyses[i].name, "Analysis_" \o timestamp \o "_" \o ToString(i))

\* C16: on commit, once the dataset step is done, a statistical test entity
\* is stored for every entry of the staged newAnalyses list, under the name
\* of the entry or under the derived name Analysis_<timestamp>_<i>, and the
\* commit goes on to its later steps and ends without an error.
C16_AnalysesCreated ==
  [][ (/\ CommitCall
       /\ \A ts \in Timestamps : commitThrough(1, graph, StagedArgs, ts).ok) =>
        /\ \A i \in DOMAIN JSONparse(StagedArgs.newAnalyses) :
              \E e \in Range(graph'.entities), ts \in Timestamps :
                 /\ e.name = AnalysisName(JSONparse(StagedArgs.newAnalyses), i, ts)
                 /\ e.entityType \in {"statisticalTest", "statistical_test"}
        /\ JSONparse(StagedArgs.newAnalyses) # <<>> => last'.ret.success
    ]_vars

\* C17: on commit with a stored project P, every dataset, visualization,
\* hypothesis and model entity that the commit creates is the target of a
\* stored relation (P, entity, contains) afterwards.
C17_CreatedEntitiesLinked ==
  [][ (CommitCall /\ StagedArgs.project \in EntityNames(graph)) =>
        \A e \in Range(graph'.entities) :
           (/\ e.name \notin EntityNames(graph)
            /\ e.entityType \in {"dataset", "visualization", "hypothesis", "model"}) =>
             Relation(StagedArgs.project, e.name, "contains") \in Range(graph'.relations)
    ]_vars

\* the size: and variables: observations of a list
SizeObservations(observations) ==
  {o \in Range(observations) : startsWith(o, "size:") \/ startsWith(o, "variables:")}

\* C18: on commit with a stored project, a staged dataset update whose name
\* is a stored dataset leaves that dataset with the observations size:<new
\* size> and variables:<new variables> and no other size: or variables:
\* observation; a staged update whose name is not stored leaves a dataset of
\* that name stored and linked to the project.
C18_DatasetUpsert ==
  [][ (CommitCall /\ StagedArgs.project \in EntityNames(graph)) =>
        \A i \in DOMAIN JSONparse(StagedArgs.datasetUpdates) :
           LET d == JSONparse(StagedArgs.datasetUpdates)[i]
           IN  IF \E e \in Range(graph.entities) : e.name = d.name /\ e.entityType = "dataset"
               THEN \E e \in Range(graph'.entities) :
                       /\ e.name = d.name
                       /\ SizeObservations(e.observations) =
                            { "size:" \o OrElse(d.size, "unknown"),
                              "variables:" \o OrElse(d.variables, "unknown") }
               ELSE /\ \E e \in Range(graph'.entities) :
                          e.name = d.name /\ e.entityType = "dataset"
                    /\ Relation(StagedArgs.project, d.name, "contains")
                         \in Range(graph'.relations)
    ]_vars

\* the steps of the commit of the step that throw, each started from the
\* graph its predecessors saved
FailingSteps(timestamp) ==
  { k \in 1..CommitSteps :
      /\ commitThrough(k - 1, graph, StagedArgs, timestamp).ok
      /\ ~commitStep(k, commitThrough(k - 1, graph, StagedArgs, timestamp).graph,
                     StagedArgs, timestamp).ok }

\* C19: when a step of the commit fails the call returns the error text and
\* the stored graph is the one the failing step left: the mutations saved by
\* the earlier steps and by the failing step before its throw stay, and no
\* later step is applied; when no step fails no error is returned.
C19_CommitNotAtomic ==
  [][ CommitCall =>
        \E ts \in Timestamps :
           IF FailingSteps(ts) = {}
           THEN last'.ret.success
           ELSE /\ ~last'.ret.success
                /\ last'.ret.kind = "text"
                /\ last'.ret.value[1] = "Error recording quantitative research session"
                /\ \A k \in FailingSteps(ts) :
                      graph' = commitStep(k, commitThrough(k - 1, graph, StagedArgs, ts).graph,
                                          StagedArgs, ts).graph
    ]_vars

\* a commit that failed at the analyses step after its dataset step had
\* stored the dataset D and its link to the project
C19_Witness ==
  /\ last.op = "endsession"
  /\ last.args.stage = "assembly"
  /\ ~last.args.nextStageNeeded
  /\ last.ret.kind = "text"
  /\ ~last.ret.success
  /\ last.ret.value = << "Error recording quantitative research session",
                         "InvalidType", "statistical_test" >>
  /\ last.before[1] < Len(graph.entities)
  /\ last.before[2] < Len(graph.relations)
  /\ Relation("P", "D", "contains") \in Range(graph.relations)

(* ---------------- properties of the session table ---------------- *)

\* the step is an endsession call for a session of the table
KnownSessionCall ==
  /\ last'.op = "endsession"
  /\ last'.args.sessionId \in DOMAIN sessions

\* the step is a revision call that names a recorded position
RevisesRecorded ==
  /\ last'.args.isRevision
  /\ last'.args.revisesStage \in 1..Len(sessions[last'.args.sessionId])

C21_FreshSessionId ==
  [][ last'.op = "startsession" =>
        /\ last'.ret.value \notin DOMAIN sessions
        /\ \A id \in DOMAIN sessions : sessions'[id] = sessions[id]
    ]_vars

\* C22: no call removes a session id from the session table, an endsession
\* call changes no stage list but that of its own sessionId, and no call
\* makes the stage list of a session shorter.
C22_SessionsOnlyAccumulate ==
  [][ /\ DOMAIN sessions \subseteq DOMAIN sessions'
      /\ last'.op = "endsession" =>
           \A id \in DOMAIN sessions \ {last'.args.sessionId} :
              sessions'[id] = sessions[id]
      /\ \A id \in DOMAIN sessions : Len(sessions'[id]) >= Len(sessions[id])
    ]_vars

\* the step is an endsession call that reaches the store step: its session
\* is in the table and its stage name is one of the eight
StoringCall == KnownSessionCall /\ last'.args.stage \in STAGES

\* the record that the step stores
StoredRecords ==
  { [type |-> "analysis_stage"]
      @@ processStage(last'.args, sessions[last'.args.sessionId], ts) : ts \in Timestamps }

\* C23: an endsession call with isRevision = true and revisesStage = k at
\* most the number of records of the session replaces the record at position
\* k with the new record and leaves every other record, the order and the
\* length unchanged; with k beyond the number of records the new record is
\* appended; a call without isRevision appends exactly one record.
C23_RevisionByPosition ==
  [][ StoringCall =>
        LET old == sessions[last'.args.sessionId]
            new == sessions'[last'.args.sessionId]
            k == last'.args.revisesStage
        IN  \E record \in StoredRecords :
               /\ (last'.args.isRevision /\ k \in 1..Len(old)) =>
                    new = [old EXCEPT ![k] = record]
               /\ (last'.args.isRevision /\ k > Len(old)) => new = Append(old, record)
               /\ ~last'.args.isRevision => new = Append(old, record)
    ]_vars

\* a revision of the first position was stored in a session that holds a
\* later record of another stage
C23_Witness ==
  /\ last.op = "endsession"
  /\ last.ret.kind = "stage"
  /\ last.args.isRevision
  /\ last.args.revisesStage = 1
  /\ last.args.sessionId \in DOMAIN sessions
  /\ Len(sessions[last.args.sessionId]) >= 2
  /\ sessions[last.args.sessionId][1].stage = last.args.stage
  /\ sessions[last.args.sessionId][2].stage # last.args.stage

\* C24: for a session of the table, an endsession call with any of the eight
\* stage names is accepted and its record is appended whatever records the
\* session holds, also after an assembly commit; an assembly call with
\* nextStageNeeded = false runs the commit on the staged data each time.
C24_NoOrderNoTerminalState ==
  [][ (StoringCall /\ ~last'.args.isRevision) =>
        LET old == sessions[last'.args.sessionId]
            new == sessions'[last'.args.sessionId]
        IN  /\ last'.ret.kind # "error"
            /\ Len(new) = Len(old) + 1
            /\ SubSeq(new, 1, Len(old)) = old
            /\ new[Len(new)].stage = last'.args.stage
            /\ CommitCall =>
                 /\ last'.ret.kind = "text"
                 /\ \E ts \in Timestamps : graph' = commit(graph, StagedArgs, ts).graph
    ]_vars

\* a second terminal assembly call was recorded after a completed one and
\* its commit set the status of the project
C24_Witness ==
  /\ last.op = "endsession"
  /\ last.args.stage = "assembly"
  /\ ~last.args.nextStageNeeded
  /\ last.ret.kind = "text"
  /\ last.ret.success
  /\ last.args.sessionId \in DOMAIN sessions
  /\ \E i \in DOMAIN sessions[last.args.sessionId] :
        /\ i < Len(sessions[last.args.sessionId])
        /\ sessions[last.args.sessionId][i].stage = "assembly"
        /\ sessions[last.args.sessionId][i].completed
  /\ Relation("P", "status:active", "has_status") \in Range(graph.relations)

(* ---------------- properties of overlapping calls ---------------- *)

\* the caller whose call writes the file in this step, {} when the step is
\* no successful save
Saver == {c \in Callers : calls[c].pc = "loaded" /\ calls'[c].pc = "done" /\ calls'[c].ok}

\* C25: when a call saves after another call saved between its load and its
\* save, the file holds exactly what the later saver computed from the graph
\* it had loaded, and an entity that the earlier saver reported as created
\* is not in the file (unless the later saver had loaded that name or creates
\* it itself).
C25_LastSaverWins ==
  [][ \A c \in Saver :
        /\ graph' = IF calls[c].op = "createEntities"
                    THEN createEntities(calls[c].loaded, calls[c].args).graph
                    ELSE deleteEntities(calls[c].loaded, calls[c].args).graph
        /\ \A m \in calls[c].missed :
             m.op = "createEntities" =>
               \A i \in DOMAIN m.ret :
                  (/\ m.ret[i].name \notin EntityNames(calls[c].loaded)
                   /\ calls[c].op = "createEntities" =>
                         calls[c].args[1].name # m.ret[i].name)
                    => m.ret[i].name \notin EntityNames(graph')
    ]_vars

\* both callers loaded the empty graph; c1 saved entity A and reported it as
\* created, then c2 saved entity B: A is not in the file
C25_Witness ==
  /\ calls["c1"].pc = "done" /\ calls["c1"].ok
  /\ calls["c1"].ret = <<Entity("A", "project", <<>>)>>
  /\ calls["c2"].pc = "done" /\ calls["c2"].ok
  /\ calls["c2"].ret = <<Entity("B", "dataset", <<>>)>>
  /\ calls["c2"].missed # {}
  /\ EntityNames(graph) = {"B"}

(* ---------------- properties of the read methods ---------------- *)

\* every token of the query is found in the name, the type or an observation
MatchesEveryToken(e, query) ==
  \A token \in Range(splitWhitespace(toLowerCase(query))) :
     \/ includes(toLowerCase(e.name), token)
     \/ includes(toLowerCase(e.entityType), token)
     \/ \E o \in Range(e.observations) : includes(toLowerCase(o), token)

\* C26: searchNodes(query) returns exactly the stored entities that match
\* every lower-cased token of the query in their name, type or some
\* observation, in stored order, and exactly the stored relations whose two
\* ends are names of returned entities; an entity matching only some tokens is
\* not returned.
C26_SearchExact ==
  last.op = "searchNodes" =>
    /\ last.ret.entities =
         SelectSeq(graph.entities, LAMBDA e : MatchesEveryToken(e, last.args))
    /\ last.ret.relations =
         SelectSeq(graph.relations,
           LAMBDA r : /\ \E e \in Range(last.ret.entities) : e.name = r.from
                      /\ \E e \in Range(last.ret.entities) : e.name = r.to)

ReadOperations ==
  { "readGraph", "searchNodes", "openNodes", "getProjectOverview",
    "getDatasetAnalysis", "getHypothesisTests", "getVariableRelationships",
    "getStatisticalResults", "getVisualizationGallery", "getModelPerformance",
    "getResearchQuestionResults", "getVariableDistribution",
    "getEntityStatus", "getEntityPriority" }

\* C27: every read operation, whether it returns or throws, leaves the stored
\* graph and the session table as they were.
C27_ReadsLeaveStateUnchanged ==
  [][last'.op \in ReadOperations => /\ graph' = graph
                                    /\ sessions' = sessions]_vars

\* a view has returned the one variable of a stored dataset while a session
\* is in the table
C27_Witness ==
  /\ last.op = "getDatasetAnalysis"
  /\ last.ok
  /\ last.ret.variables.count = 1
  /\ Len(graph.relations) = 4
  /\ DOMAIN sessions # {}

\* is an entity of that name and type stored
Stored(n, t) == \E e \in Range(graph.entities) : e.name = n /\ e.entityType = t

\* is the triple stored
Linked(from, to, relationType) == Relation(from, to, relationType) \in Range(graph.relations)

\* the pairs (D, V): D a dataset that is part_of the project, V a variable
\* that D contains
ProjectVariablePairs(projectName) ==
  { pair \in EntityNames(graph) \X EntityNames(graph) :
      /\ Stored(pair[1], "dataset")
      /\ Linked(pair[1], projectName, "part_of")
      /\ Stored(pair[2], "variable")
      /\ Linked(pair[1], pair[2], "contains") }

\* C28: getProjectOverview(P).dataCollection.totalVariables is the number of
\* pairs (D, V) with D a dataset entity that is part_of P, V a variable entity
\* and a stored contains relation from D to V.
C28_TotalVariablesCountsPairs ==
  (last.op = "getProjectOverview" /\ last.ok) =>
     last.ret.dataCollection.totalVariables
       = Cardinality(ProjectVariablePairs(last.args))

\* C29: in the result of getDatasetAnalysis the buckets independent,
\* dependent, control and other are pairwise disjoint, other is the
\* complement of the first three, and every variable of the dataset is in
\* exactly one bucket.
C29_BucketsPartitionVariables ==
  (last.op = "getDatasetAnalysis" /\ last.ok) =>
     LET v == last.ret.variables
         independent == Range(v.independent)
         dependent == Range(v.dependent)
         control == Range(v.control)
         other == Range(v.other)
         all == Range(LinkedTo(graph, "contains", last.args, "variable"))
     IN  /\ independent \cap dependent = {}
         /\ independent \cap control = {}
         /\ dependent \cap control = {}
         /\ other = all \ (independent \cup dependent \cup control)
         /\ all = independent \cup dependent \cup control \cup other

\* C30: in the result of getStatisticalResults no statistical test is listed
\* twice in testResults.
C30_NoTestTwice ==
  (last.op = "getStatisticalResults" /\ last.ok) =>
     \A i, j \in DOMAIN last.ret.testResults :
        last.ret.testResults[i].test.name = last.ret.testResults[j].test.name => i = j

\* C31: getVariableDistribution(V, D) with a dataset name given, V a stored
\* variable and D a stored dataset, throws the 'does not contain variable'
\* error when no contains relation from D to V is stored and otherwise
\* returns with datasets = [D]; it returns no result for an unlinked pair.
C31_DistributionNeedsContainsEdge ==
  (last.op = "getVariableDistribution" /\ last.args[2] # "") =>
     LET V == last.args[1]
         D == last.args[2]
     IN  /\ (Stored(V, "variable") /\ Stored(D, "dataset")) =>
               IF Linked(D, V, "contains")
               THEN /\ last.ok
                    /\ Len(last.ret.datasets) = 1
                    /\ last.ret.datasets[1].name = D
                    /\ last.ret.datasets[1].entityType = "dataset"
               ELSE /\ ~last.ok
                    /\ last.err = <<"DoesNotContain", D, V>>
         /\ last.ok => Linked(D, V, "contains")

\* the call was refused for a stored variable and a stored dataset that no
\* contains relation links
C31_Witness ==
  /\ last.op = "getVariableDistribution"
  /\ ~last.ok
  /\ last.err = <<"DoesNotContain", "D", "V">>
  /\ Stored("V", "variable")
  /\ Stored("D", "dataset")

\* C32: createRelations stores and returns every requested relation whose
\* (from, to, relationType) triple differs from all stored triples, also when
\* entity names contain ':'; different triples are never taken for duplicates.
C32_DistinctTriplesAreStored ==
  [][(last'.op = "createRelations" /\ last'.ok) =>
       \A i \in DOMAIN last'.args :
          last'.args[i] \notin Range(graph.relations) =>
             /\ last'.args[i] \in Range(last'.ret)
             /\ last'.args[i] \in Range(graph'.relations)]_vars

\* C33: after a successful setEntityStatus(n, v) or setEntityPriority(n, v)
\* the has_status / has_priority relation it stored has a from and a to that
\* both name stored entities.
C33_StatusEdgeEndsAreStored ==
  /\ (last.op = "setEntityStatus" /\ last.ok) =>
        \A r \in Range(EdgesFrom(graph, last.args[1], "has_status")) :
           r.from \in EntityNames(graph) /\ r.to \in EntityNames(graph)
  /\ (last.op = "setEntityPriority" /\ last.ok) =>
        \A r \in Range(EdgesFrom(graph, last.args[1], "has_priority")) :
           r.from \in EntityNames(graph) /\ r.to \in EntityNames(graph)

\* the names status:<v> of the valid status values
StatusEntityNames == {"status:" \o VALID_STATUS_VALUES[i] : i \in DOMAIN VALID_STATUS_VALUES}

\* C34: every stored has_status relation targets an entity named status:<v>
\* with v a valid status value, and getEntityStatus returns null or one of
\* the valid status values.
C34_StatusEdgesTargetStatusValues ==
  /\ \A r \in Range(graph.relations) :
        r.relationType = "has_status" => r.to \in StatusEntityNames
  /\ last.op = "getEntityStatus" =>
        last.ret \in {"null"} \cup Range(VALID_STATUS_VALUES)

\* C35: the assembly record is saved to the session table before the commit
\* touches the graph: after every terminal assembly call, failed commit or
\* not, the session's list ends with the assembly record, completed = true.
C35_AssemblyRecordedBeforeCommit ==
  [][ (CommitCall /\ ~last'.args.isRevision) =>
        LET before == sessions[last'.args.sessionId]
            after == sessions'[last'.args.sessionId]
        IN  /\ Len(after) = Len(before) + 1
            /\ SubSeq(after, 1, Len(before)) = before
            /\ after[Len(after)].stage = "assembly"
            /\ after[Len(after)].completed
    ]_vars

\* a commit that failed at the analyses step after its dataset step had
\* changed the graph, with the completed assembly record in the table
C35_Witness ==
  /\ last.op = "endsession"
  /\ last.args.stage = "assembly"
  /\ ~last.args.nextStageNeeded
  /\ ~last.ret.success
  /\ last.ret.kind = "text"
  /\ last.before[1] < Len(graph.entities)
  /\ LET list == sessions[last.args.sessionId]
     IN  /\ list # <<>>
         /\ list[Len(list)].stage = "assembly"
         /\ list[Len(list)].completed

\* the stage data of the earliest record of the kind in the list
EarliestData(list, kind) ==
  list[MinOf({i \in DOMAIN list : list[i].stage = kind})].stageData

\* does the list hold a record of the kind
Recorded(list, kind) == \E i \in DOMAIN list : list[i].stage = kind

\* C36: the terminal assembly reads, for every stage kind, the data of the
\* earliest record of that kind in the session's list, and the commit applies
\* the arguments assembled from them: a later record of the same kind changes
\* nothing.
C36_AssemblyReadsEarliestRecord ==
  [][ (CommitCall /\ ~last'.args.isRevision) =>
        LET list == sessions[last'.args.sessionId]
            after == sessions'[last'.args.sessionId]
            args == after[Len(after)].stageData
        IN  /\ Recorded(list, "summary") =>
                  /\ args.summary = Get(EarliestData(list, "summary"), "summary")
                  /\ args.project = Get(EarliestData(list, "summary"), "project")
            /\ Recorded(list, "datasetUpdates") =>
                  args.datasetUpdates =
                    JSONstringify(GetList(EarliestData(list, "datasetUpdates"), "datasets"))
            /\ Recorded(list, "projectStatus") =>
                  /\ args.projectStatus =
                       Get(EarliestData(list, "projectStatus"), "projectStatus")
                  /\ args.projectObservation =
                       Get(EarliestData(list, "projectStatus"), "projectObservation")
            /\ \E ts \in Timestamps : graph' = commit(graph, args, ts).graph
    ]_vars

\* a terminal assembly of a session that holds two projectStatus records with
\* different data: the assembled status is that of the first
C36_Witness ==
  /\ last.op = "endsession"
  /\ last.args.stage = "assembly"
  /\ ~last.args.nextStageNeeded
  /\ last.args.sessionId \in DOMAIN sessions
  /\ LET list == sessions[last.args.sessionId]
     IN  /\ Len(list) >= 3
         /\ list[1].stage = "projectStatus"
         /\ list[2].stage = "projectStatus"
         /\ list[1].stageData.projectStatus # list[2].stageData.projectStatus
         /\ list[Len(list)].stage = "assembly"
         /\ list[Len(list)].stageData.projectStatus = list[1].stageData.projectStatus

\* C37: an endsession call whose sessionId is not a key of the session table
\* returns success = false with the session-not-found error and changes
\* neither the session table nor the graph, whatever its stage name, the
\* terminal assembly included.
C37_UnknownSessionChangesNothing ==
  [][ (last'.op = "endsession" /\ last'.args.sessionId \notin DOMAIN sessions) =>
        /\ ~last'.ret.success
        /\ last'.ret.kind = "error"
        /\ last'.ret.value = <<"SessionNotFound", last'.args.sessionId>>
        /\ sessions' = sessions
        /\ graph' = graph
    ]_vars

\* a terminal assembly call on an id that the table, which holds a session
\* with a record, does not have
C37_Witness ==
  /\ last.op = "endsession"
  /\ last.args.stage = "assembly"
  /\ ~last.args.nextStageNeeded
  /\ last.args.sessionId \notin DOMAIN sessions
  /\ ~last.ret.success
  /\ \E id \in DOMAIN sessions : sessions[id] # <<>>

\* the names of the staged hypothesis results and model updates of the step
\* for which the commit takes its update path: the name search finds an entity
UpdatedNames ==
  { u.name : u \in { x \in Range(JSONparse(StagedArgs.hypothesisResults))
                              \cup Range(JSONparse(StagedArgs.modelUpdates)) :
                       Len(searchNodes(graph, "name:" \o x.name).entities) > 0 } }

\* C38: when the commit takes its update path for a hypothesis or model that
\* is stored, every relation that had that entity as from or to before the
\* commit is still stored after it.
C38_UpdateKeepsEdges ==
  [][ CommitCall =>
        \A n \in UpdatedNames \cap EntityNames(graph) :
           \A r \in Range(graph.relations) :
              (r.from = n \/ r.to = n) => r \in Range(graph'.relations)
    ]_vars

\* C39: in every graph built by createEntities and createRelations, the call
\* getResearchQuestionResults(Q) returns empty hypotheses, directResults and
\* findings lists for every stored research question Q, and no relation of
\* type related_to or answers is stored.
C39_QuestionResultsAreEmpty ==
  /\ \A r \in Range(graph.relations) : r.relationType \notin {"related_to", "answers"}
  /\ \A e \in Range(graph.entities) :
        e.entityType = "researchQuestion" =>
          \E out \in {getResearchQuestionResults(graph, e.name)} :
             /\ out.ok
             /\ out.ret.hypotheses = <<>>
             /\ out.ret.directResults = <<>>
             /\ out.ret.findings = <<>>

\* the view was read for the stored question Q while a hypothesis, a result
\* and a finding are stored and linked to Q by relations of valid types
C39_Witness ==
  /\ last.op = "getResearchQuestionResults" /\ last.ok /\ last.args = "Q"
  /\ last.ret.hypotheses = <<>> /\ last.ret.directResults = <<>>
  /\ {"H", "R", "F"} \subseteq EntityNames(graph)
  /\ Relation("R", "Q", "addresses") \in Range(graph.relations)
  /\ Relation("H", "Q", "supports") \in Range(graph.relations)

====
